---- MODULE Spec2Model ----
(***************************************************************************)
(* A model of real-bot-engine.js: the posting engine (RealBotEngine), the  *)
(* bot manager (BotManager), the in-memory registries (users, bots,        *)
(* withdrawals) and the HTTP handlers that change them.                    *)
(*                                                                         *)
(* The process is single-threaded: a handler runs without interruption     *)
(* from one await to the next, so every action below is one such run.      *)
(* Money is held in whole units; totalProfit is held in fifths of a unit,  *)
(* so that the factor 0.8 of the source is the exact integer factor 4.     *)
(***************************************************************************)
EXTENDS Integers, Sequences, FiniteSets, Bags, TLC

(* ------------------------------ bounds -------------------------------- *)

\* setInterval handles created in one run
MaxTimers == 2
\* async invocations (ticks, manual cycles, withdrawals) suspended at once
MaxInFlight == 1
\* the largest totalEarnings a user is let to reach
MaxEarnings == 2
\* completed withdrawals kept per user
MaxWithdrawals == 2
\* the last reading of Date.now()
MaxClock == 1
\* items in a search response
MaxProducts == 3
\* platforms in the list runBotCycle is called with
MaxPlatforms == 2
\* the largest maxProducts fetchAmazonProducts is called with
MaxCount == 3
\* ticks of one user whose credits are followed as Numbers
MaxCredits == 3

(* ------------------------------ inputs -------------------------------- *)

\* JavaScript's null and undefined
NULL == "null"
UNDEFINED == "undefined"

\* req.body.userId: 'default_user' is the id the source itself defaults to
UserIds == {"default", "default_user"}

\* req.params.platform: any path segment is accepted
Platforms == {"twitter", "user_twitter"}

\* the (userId, platform) pairs the bot requests are made for
BotRequests ==
    {<<"default", "twitter">>, <<"default", "user_twitter">>, <<"default_user", "twitter">>}

\* req.body.keywords
KeywordLists == {<<>>, <<"earbuds">>}

\* req.body.keyword of a manual run; 'trending products' is the default
ManualKeywords == {"trending products"}

\* the world one runBotCycle call meets: the search response, the platforms whose
\* credentials are configured, and what each publish call's API does
CycleEnv(response, configured, api) ==
    [response |-> response, configured |-> configured, api |-> api]

Search(kind, items) == [kind |-> kind, items |-> items]

\* the worlds met by the cycles a tick or a manual run starts (one platform
\* each): the search raises, answers with no array, or answers with one item
\* that the configured platform posts
TickEnvs ==
    {CycleEnv(r, {"twitter"}, [x \in {<<1, 1>>} |-> "id"]) :
        r \in {Search("error", <<>>), Search("object", <<>>),
               Search("items", <<[ASIN |-> "B01", ItemInfo |-> TRUE]>>)}}

\* the worlds the n cycles of one tick meet, in order: the same world for all of
\* them, or one where only the first search answers with no array
TickWorlds(n) ==
    {[k \in 1..n |-> e] : e \in TickEnvs}
    \cup {[k \in 1..n |-> IF k = 1
                           THEN CycleEnv(Search("object", <<>>), {"twitter"},
                                         [x \in {<<1, 1>>} |-> "id"])
                           ELSE CycleEnv(Search("items", <<[ASIN |-> "B01", ItemInfo |-> TRUE]>>),
                                         {"twitter"}, [x \in {<<1, 1>>} |-> "id"])]}

\* an earnings provider's answer: the call raised, or reported totalEarnings
Reply(ok, totalEarnings) == [ok |-> ok, totalEarnings |-> totalEarnings]

Replies(amazon, clickbank, ebay) ==
    [amazon |-> amazon, clickbank |-> clickbank, ebay |-> ebay]

\* what the three earnings providers answer to the poll of a tick or a manual
\* run: totals -1, 0, 1, 2 and 3
TickReplies ==
    {Replies(Reply(FALSE, 0), Reply(FALSE, 0), Reply(TRUE, -1)),
     Replies(Reply(FALSE, 0), Reply(TRUE, 0), Reply(FALSE, 0)),
     Replies(Reply(TRUE, 1), Reply(FALSE, 0), Reply(FALSE, 0)),
     Replies(Reply(TRUE, 1), Reply(TRUE, 1), Reply(FALSE, 0)),
     Replies(Reply(TRUE, 1), Reply(TRUE, 1), Reply(TRUE, 1))}

\* the registry key `${userId}_${platform}`
Key(userId, platform) == userId \o "_" \o platform

\* Map.delete
MapDelete(m, k) == [x \in DOMAIN m \ {k} |-> m[x]]

\* Map.set, and the assignment obj[k] = v
MapSet(m, k, v) == (k :> v) @@ m

(* --------------------------- RealBotEngine ---------------------------- *)

\* (mutant) every value is taken as true
TruthyAlways(v) == TRUE

\* a value JavaScript's if (postId) takes as true
Truthy(v) == v \notin {NULL, UNDEFINED, ""}

\* the platforms runBotCycle's switch has a case for
SwitchCases == {"twitter", "facebook", "instagram", "tiktok", "pinterest", "ebay"}

\* what a platform's API call does: raise, answer without an id, answer with one
ApiOutcomes == {"error", "noid", "id"}

\* what the product search does: raise (network, authentication, a response
\* without data), answer without SearchResult.Items, answer with an array of
\* items, answer with Items that is no array (an object)
SearchKinds == {"error", "noitems", "items", "object"}

\* an item of the search response; ItemInfo tells whether it has that member
Item(asin, hasInfo) == [ASIN |-> asin, ItemInfo |-> hasInfo]

Title(product) == "title " \o product.ASIN

\* what fetchAmazonProducts returns: the response's Items as they are (ItemCount
\* is only sent with the request), [] when there are none or the call raised
fetchAmazonProducts(keyword, maxProducts, response) ==
    CASE response.kind = "items" -> [iterable |-> TRUE, items |-> response.items]
      [] response.kind = "object" -> [iterable |-> FALSE, items |-> <<>>]
      [] OTHER -> [iterable |-> TRUE, items |-> <<>>]

AffiliateTag == "your-tag-20"

generateAffiliateLinks(product) ==
    "https://amazon.com/dp/" \o product.ASIN \o "?tag=" \o AffiliateTag \o "&ref=paapi5_dp"

\* the identifier a platform's API answers with
ApiId(platform, product) == platform \o ":" \o product.ASIN

\* a publisher's answer: the value it returns and whether it called the platform
Published(postId, called) == [postId |-> postId, called |-> called]

\* what the guarded API call of a publisher returns
ApiAnswer(platform, product, outcome) ==
    CASE outcome = "id" -> ApiId(platform, product)
      [] outcome = "noid" -> UNDEFINED
      [] OTHER -> NULL

postToTwitter(product, configured, outcome) ==
    IF "twitter" \notin configured THEN Published(NULL, FALSE)
    ELSE Published(ApiAnswer("twitter", product, outcome), TRUE)

postToFacebook(product, configured, outcome) ==
    IF "facebook" \notin configured THEN Published(NULL, FALSE)
    ELSE Published(ApiAnswer("facebook", product, outcome), TRUE)

postToInstagram(product, configured, outcome) ==
    IF "instagram" \notin configured THEN Published(NULL, FALSE)
    ELSE Published(ApiAnswer("instagram", product, outcome), TRUE)

\* a placeholder: no credentials are looked at, no call is made, an id is made up
postToTikTok(product, configured, outcome) ==
    Published("tiktok_" \o product.ASIN, FALSE)

\* no credentials are looked at: the call is made with whatever token there is
postToPinterest(product, configured, outcome) ==
    Published(ApiAnswer("pinterest", product,
                        IF "pinterest" \in configured THEN outcome ELSE "error"), TRUE)

\* a placeholder, as postToTikTok
postToEbay(product, configured, outcome) ==
    Published("ebay_" \o product.ASIN, FALSE)

\* the switch of runBotCycle; postId stays null for a platform without a case
Publish(platform, product, configured, outcome) ==
    CASE platform = "twitter" -> postToTwitter(product, configured, outcome)
      [] platform = "facebook" -> postToFacebook(product, configured, outcome)
      [] platform = "instagram" -> postToInstagram(product, configured, outcome)
      [] platform = "tiktok" -> postToTikTok(product, configured, outcome)
      [] platform = "pinterest" -> postToPinterest(product, configured, outcome)
      [] platform = "ebay" -> postToEbay(product, configured, outcome)
      [] OTHER -> Published(NULL, FALSE)

PostResult(platform, postId, product) ==
    [platform |-> platform, postId |-> postId, product |-> Title(product),
     affiliateLink |-> generateAffiliateLinks(product)]

\* an entry of the trace of a cycle: a publisher invoked, or a delay waited
Trace(what, platform, asin) == [what |-> what, platform |-> platform, product |-> asin]

\* the inner loop of runBotCycle from the j-th platform on, for the i-th product;
\* env.api[<<i, j>>] is what that publish call's API does
RECURSIVE PostToPlatforms(_, _, _, _, _)
PostToPlatforms(product, i, platforms, j, env) ==
    IF j > Len(platforms) THEN [results |-> <<>>, trace |-> <<>>]
    ELSE LET platform == platforms[j]
             answer == Publish(platform, product, env.configured, env.api[<<i, j>>])
             rest == PostToPlatforms(product, i, platforms, j + 1, env)
         IN  [results |-> (IF Truthy(answer.postId)
                           THEN <<PostResult(platform, answer.postId, product)>>
                           ELSE <<>>) \o rest.results,
              trace |-> (IF platform \in SwitchCases
                         THEN <<Trace("publish", platform, product.ASIN)>>
                         ELSE <<>>) \o rest.trace]

\* the outer loop of runBotCycle from the i-th product on. A product without
\* ItemInfo raises at product.ItemInfo.Title, before any publish and before the
\* delay; the catch goes on with the next product.
RECURSIVE ProcessProducts(_, _, _, _)
ProcessProducts(products, i, platforms, env) ==
    IF i > Len(products) THEN [results |-> <<>>, trace |-> <<>>]
    ELSE LET product == products[i]
             rest == ProcessProducts(products, i + 1, platforms, env)
             posted == PostToPlatforms(product, i, platforms, 1, env)
         IN  IF ~product.ItemInfo
             THEN [results |-> rest.results,
                   trace |-> <<Trace("caught", "", product.ASIN)>> \o rest.trace]
             ELSE [results |-> posted.results \o rest.results,
                   trace |-> posted.trace \o <<Trace("delay", "", product.ASIN)>>
                             \o rest.trace]

\* (mutant) one try around the whole loop: the first product that raises ends it
runBotCycleOneTry(keyword, platforms, env) ==
    LET products == fetchAmazonProducts(keyword, 5, env.response)
        raising == {i \in 1..Len(products.items) : ~products.items[i].ItemInfo}
        last == IF raising = {} THEN Len(products.items)
                ELSE (CHOOSE i \in raising : \A j \in raising : i <= j) - 1
        done == ProcessProducts(SubSeq(products.items, 1, last), 1, platforms, env)
    IN  IF ~products.iterable
        THEN [threw |-> TRUE, results |-> <<>>, trace |-> <<>>]
        ELSE [threw |-> FALSE, results |-> done.results,
              trace |-> IF raising = {} THEN done.trace
                        ELSE done.trace \o <<Trace("caught", "", products.items[last + 1].ASIN)>>]

\* (mutant) no delay is waited after a product
runBotCycleNoDelay(keyword, platforms, env) ==
    LET products == fetchAmazonProducts(keyword, 5, env.response)
        done == ProcessProducts(products.items, 1, platforms, env)
    IN  IF ~products.iterable
        THEN [threw |-> TRUE, results |-> <<>>, trace |-> <<>>]
        ELSE [threw |-> FALSE, results |-> done.results,
              trace |-> SelectSeq(done.trace, LAMBDA e : e.what # "delay")]

\* runBotCycle(keyword, platforms) in the environment env: whether it raised,
\* the results it returned and the trace of what it did
runBotCycle(keyword, platforms, env) ==
    LET products == fetchAmazonProducts(keyword, 5, env.response)
        done == ProcessProducts(products.items, 1, platforms, env)
    IN  IF ~products.iterable
        THEN \* for (const product of products) raises outside every try
             [threw |-> TRUE, results |-> <<>>, trace |-> <<>>]
        ELSE [threw |-> FALSE, results |-> done.results, trace |-> done.trace]

getAmazonEarnings(reply) == IF reply.ok THEN reply.totalEarnings ELSE 0

getClickbankEarnings(reply) == IF reply.ok THEN reply.totalEarnings ELSE 0

getEbayEarnings(reply) == IF reply.ok THEN reply.totalEarnings ELSE 0

\* (mutant) a provider's failure ends the collection with a total of 0
trackAffiliateEarningsAborting(replies) ==
    IF replies.amazon.ok /\ replies.clickbank.ok /\ replies.ebay.ok
    THEN [amazon |-> replies.amazon.totalEarnings,
          clickbank |-> replies.clickbank.totalEarnings,
          ebay |-> replies.ebay.totalEarnings,
          total |-> replies.amazon.totalEarnings + replies.clickbank.totalEarnings
                    + replies.ebay.totalEarnings]
    ELSE [amazon |-> 0, clickbank |-> 0, ebay |-> 0, total |-> 0]

\* RealBotEngine.trackAffiliateEarnings
trackAffiliateEarnings(replies) ==
    LET amazonEarnings == getAmazonEarnings(replies.amazon)
        clickbankEarnings == getClickbankEarnings(replies.clickbank)
        ebayEarnings == getEbayEarnings(replies.ebay)
    IN  [amazon |-> amazonEarnings, clickbank |-> clickbankEarnings,
         ebay |-> ebayEarnings,
         total |-> amazonEarnings + clickbankEarnings + ebayEarnings]

(* ------------------------------ state --------------------------------- *)

VARIABLES
    users,          \* Map userId -> user record
    userConfigs,    \* BotManager.userConfigs: Map key -> config
    botIntervals,   \* BotManager.botIntervals: Map key -> timer handle
    timers,         \* the runtime's interval timers, by handle
    ticks,          \* runRealBotCycle invocations suspended at an await
    manuals,        \* runManualCycle invocations suspended at an await
    withdrawals,    \* Map withdrawalId -> withdrawal record (the global index)
    pending,        \* POST /api/withdraw invocations suspended at their await
    now,            \* Date.now()
    paypalClient,   \* whether the PayPal client was configured at start-up
    cycleIn,        \* the arguments and the world of one runBotCycle call
    cycleOut,       \* what that call returned
    callIn,         \* one call of another method of the engine, and its world
    callOut,        \* what that call returned
    lastOp,         \* the handler step just taken, and its outcome
    emitted,        \* the events that step sent through io.to(userId).emit
    streak,         \* history: the start/stop calls made in succession for one pair
    untracked,      \* history: the handles stopBot has taken out of botIntervals
    started,        \* history: the (userId, platform) pairs startBot has returned for
    race,           \* history: a withdrawal and a tick of one user in flight together
    polled          \* history: per user, the positive totals its ended ticks polled

vars == <<users, userConfigs, botIntervals, timers, ticks, manuals, withdrawals, pending,
          now, paypalClient, cycleIn, cycleOut, callIn, callOut, lastOp, emitted,
          streak, untracked, started, race, polled>>

registries == <<users, userConfigs, botIntervals, timers, ticks, manuals, withdrawals, pending>>

\* what no handler of the bot manager writes: the clock, the start-up
\* configuration, and the calls of the engine looked at on their own
surroundings == <<now, paypalClient, cycleIn, cycleOut, callIn, callOut>>

\* a handler step and how it ended: ok, or the message of the error it raised
Op(op, ok, error) == [op |-> op, ok |-> ok, error |-> error]

Event(type, room, message) == [type |-> type, room |-> room, message |-> message]

\* streak after a returned start: the starts made in succession for the pair
\* (counted up to two), no stop after them yet
AfterStart(userId, platform) ==
    [userId |-> userId, platform |-> platform,
     starts |-> IF /\ streak.userId = userId /\ streak.platform = platform
                   /\ ~streak.stopped /\ streak.starts >= 1
                THEN 2 ELSE 1,
     stopped |-> FALSE]

\* streak after a stop: the starts that came right before it for the same pair
AfterStop(userId, platform) ==
    [userId |-> userId, platform |-> platform,
     starts |-> IF /\ streak.userId = userId /\ streak.platform = platform
                   /\ ~streak.stopped
                THEN streak.starts ELSE 0,
     stopped |-> TRUE]

\* no withdrawal and tick have been in flight together yet
NoRace ==
    [phase |-> "idle", userId |-> "", before |-> 0, ticked |-> FALSE, credit |-> 0,
     paid |-> FALSE, debit |-> 0, after |-> 0]

\* race when a withdrawal and a tick of userId come to be in flight together:
\* the balance they both start from is noted, unless a pair is being followed
RaceOpens(userId) ==
    IF race.phase = "open" THEN race
    ELSE [NoRace EXCEPT !.phase = "open", !.userId = userId,
                        !.before = users[userId].availableBalance]

\* a followed pair is over once both of its operations have ended
RaceCloses(r, balance) ==
    IF r.ticked /\ r.paid THEN [r EXCEPT !.phase = "done", !.after = balance] ELSE r

\* race when a tick of userId ends that was to add `credit` (0 when the polled
\* total was not positive), leaving `balance`; a further credit by another tick
\* of the user ends the following of the pair
RaceTicked(userId, credit, balance) ==
    IF race.phase # "open" \/ race.userId # userId THEN race
    ELSE IF ~race.ticked
         THEN RaceCloses([race EXCEPT !.ticked = TRUE, !.credit = credit], balance)
         ELSE IF credit # 0 THEN NoRace ELSE race

\* race when a withdrawal of userId ends that was to take `debit` (0 when the
\* payment failed), leaving `balance`; `suspended` tells whether the request
\* had waited for the processor
RacePaid(userId, debit, balance, suspended) ==
    IF race.phase # "open" \/ race.userId # userId THEN race
    ELSE IF suspended /\ ~race.paid
         THEN RaceCloses([race EXCEPT !.paid = TRUE, !.debit = debit], balance)
         ELSE IF debit # 0 THEN NoRace ELSE race

(* --------------------------- GET /api/user-data ----------------------- *)

NewUser ==
    [totalEarnings |-> 0, availableBalance |-> 0, totalRevenue |-> 0,
     totalProfit |-> 0, activeBots |-> [p \in Platforms |-> FALSE],
     withdrawalHistory |-> <<>>]

GetUserData(userId) ==
    /\ users' = IF userId \in DOMAIN users THEN users ELSE MapSet(users, userId, NewUser)
    /\ lastOp' = Op("user_data", TRUE, "")
    /\ emitted' = <<>>
    /\ UNCHANGED <<userConfigs, botIntervals, timers, ticks, manuals, withdrawals, pending,
                   streak, untracked, started, race, surroundings, polled>>

(* --------------------------- BotManager ------------------------------- *)

DefaultKeywords == <<"trending", "popular", "bestseller">>

\* req.body.keywords = {length: 1}: a value with a positive length and no
\* iterator, written as the one-element list of its string form
NotIterable == <<"[object Object]">>

\* for (const keyword of keywords) can be entered
Iterable(keywords) == keywords # NotIterable

\* (mutant) the supplied keywords are dropped
BotConfigDefaultOnly(platform, keywords) ==
    [keywords |-> DefaultKeywords, platforms |-> <<platform>>]

\* the configuration startBot stores
BotConfig(platform, keywords) ==
    [keywords |-> IF Len(keywords) > 0 THEN keywords ELSE DefaultKeywords,
     platforms |-> <<platform>>]

\* user && user.activeBots && user.activeBots[platform]. A platform that was never
\* set reads as undefined, which every reader of the flag treats as false: the
\* map holds FALSE for it.
IsActive(userId, platform) ==
    /\ userId \in DOMAIN users
    /\ users[userId].activeBots[platform]

\* setInterval: a new live timer whose callback is runRealBotCycle(userId, platform)
setInterval(userId, platform) ==
    Append(timers, [userId |-> userId, platform |-> platform, live |-> TRUE])

\* (mutant) the timer is left running
clearIntervalNot(handle) == timers

\* clearInterval
clearInterval(handle) == [timers EXCEPT ![handle].live = FALSE]

\* (mutant) the configuration is stored before the user's record is looked at
startBotStoresFirst(userId, platform, keywords) ==
    IF userId \notin DOMAIN users
    THEN /\ userConfigs' = MapSet(userConfigs, Key(userId, platform),
                                  BotConfig(platform, keywords))
         /\ lastOp' = Op("start", FALSE, "TypeError")
         /\ emitted' = <<>>
         /\ UNCHANGED <<users, botIntervals, timers, ticks, manuals, withdrawals, pending,
                        streak, untracked, started, race, surroundings, polled>>
    ELSE /\ Len(timers) < MaxTimers
         /\ users' = [users EXCEPT ![userId].activeBots[platform] = TRUE]
         /\ userConfigs' = MapSet(userConfigs, Key(userId, platform),
                                  BotConfig(platform, keywords))
         /\ timers' = setInterval(userId, platform)
         /\ botIntervals' = MapSet(botIntervals, Key(userId, platform), Len(timers'))
         /\ emitted' = <<Event("bot_activity", userId, "started")>>
         /\ lastOp' = Op("start", TRUE, "")
         /\ streak' = AfterStart(userId, platform)
         /\ started' = started \cup {<<userId, platform>>}
         /\ UNCHANGED <<ticks, manuals, withdrawals, pending, untracked, race, surroundings,
                        polled>>

startBot(userId, platform, keywords) ==
    IF userId \notin DOMAIN users
    THEN \* users.get gives undefined, and undefined.activeBots = {} raises
         /\ lastOp' = Op("start", FALSE, "TypeError")
         /\ emitted' = <<>>
         /\ UNCHANGED <<registries, streak, untracked, started, race, surroundings, polled>>
    ELSE /\ Len(timers) < MaxTimers
         /\ users' = [users EXCEPT ![userId].activeBots[platform] = TRUE]
         /\ userConfigs' = MapSet(userConfigs, Key(userId, platform),
                                  BotConfig(platform, keywords))
         /\ timers' = setInterval(userId, platform)
         /\ botIntervals' = MapSet(botIntervals, Key(userId, platform), Len(timers'))
         /\ emitted' = <<Event("bot_activity", userId, "started")>>
         /\ lastOp' = Op("start", TRUE, "")
         /\ streak' = AfterStart(userId, platform)
         /\ started' = started \cup {<<userId, platform>>}
         /\ UNCHANGED <<ticks, manuals, withdrawals, pending, untracked, race, surroundings, polled>>

\* (mutant) every timer made for the pair is cancelled, tracked or not
stopBotEveryTimer(userId, platform) ==
    LET intervalKey == Key(userId, platform)
        tracked == intervalKey \in DOMAIN botIntervals
    IN  /\ users' = IF userId \in DOMAIN users
                    THEN [users EXCEPT ![userId].activeBots[platform] = FALSE]
                    ELSE users
        /\ timers' = [t \in 1..Len(timers) |->
                         IF timers[t].userId = userId /\ timers[t].platform = platform
                         THEN [timers[t] EXCEPT !.live = FALSE] ELSE timers[t]]
        /\ botIntervals' = IF tracked THEN MapDelete(botIntervals, intervalKey)
                           ELSE botIntervals
        /\ untracked' = IF tracked THEN untracked \cup {botIntervals[intervalKey]}
                        ELSE untracked
        /\ emitted' = <<Event("bot_activity", userId, "stopped")>>
        /\ lastOp' = Op("stop", TRUE, "")
        /\ streak' = AfterStop(userId, platform)
        /\ UNCHANGED <<userConfigs, ticks, manuals, withdrawals, pending, started, race,
                       surroundings, polled>>

\* (mutant) the platform's flag is cleared in every user's record
stopBotEveryUser(userId, platform) ==
    LET intervalKey == Key(userId, platform)
        tracked == intervalKey \in DOMAIN botIntervals
    IN  /\ users' = [u \in DOMAIN users |-> [users[u] EXCEPT !.activeBots[platform] = FALSE]]
        /\ timers' = IF tracked THEN clearInterval(botIntervals[intervalKey]) ELSE timers
        /\ botIntervals' = IF tracked THEN MapDelete(botIntervals, intervalKey)
                           ELSE botIntervals
        /\ untracked' = IF tracked THEN untracked \cup {botIntervals[intervalKey]}
                        ELSE untracked
        /\ emitted' = <<Event("bot_activity", userId, "stopped")>>
        /\ lastOp' = Op("stop", TRUE, "")
        /\ streak' = AfterStop(userId, platform)
        /\ UNCHANGED <<userConfigs, ticks, manuals, withdrawals, pending, started, race,
                       surroundings, polled>>

stopBot(userId, platform) ==
    LET intervalKey == Key(userId, platform)
        tracked == intervalKey \in DOMAIN botIntervals
    IN  /\ users' = IF userId \in DOMAIN users
                    THEN [users EXCEPT ![userId].activeBots[platform] = FALSE]
                    ELSE users
        /\ timers' = IF tracked THEN clearInterval(botIntervals[intervalKey]) ELSE timers
        /\ botIntervals' = IF tracked THEN MapDelete(botIntervals, intervalKey)
                           ELSE botIntervals
        /\ untracked' = IF tracked THEN untracked \cup {botIntervals[intervalKey]}
                        ELSE untracked
        /\ emitted' = <<Event("bot_activity", userId, "stopped")>>
        /\ lastOp' = Op("stop", TRUE, "")
        /\ streak' = AfterStop(userId, platform)
        /\ UNCHANGED <<userConfigs, ticks, manuals, withdrawals, pending, started, race,
                     surroundings, polled>>

(* --------------------- BotManager.runRealBotCycle --------------------- *)

\* (mutant) the active flag is not looked at
TickProceedsUnchecked(userId, platform) ==
    /\ userId \in DOMAIN users
    /\ Key(userId, platform) \in DOMAIN userConfigs

\* the guard a tick starts with: the user, the active flag, the configuration
TickProceeds(userId, platform) ==
    /\ IsActive(userId, platform)
    /\ Key(userId, platform) \in DOMAIN userConfigs

\* (mutant) the balance is set to the new earnings total
CreditEarningsFromTotal(user, total) ==
    [user EXCEPT !.totalEarnings = @ + total,
                 !.availableBalance = user.totalEarnings + total,
                 !.totalRevenue = @ + total,
                 !.totalProfit = @ + 4 * total]

\* (mutant) only what exceeds the earnings already credited is added
CreditEarningsDiffed(user, total) ==
    LET fresh == IF total > user.totalEarnings THEN total - user.totalEarnings ELSE 0
    IN  [user EXCEPT !.totalEarnings = @ + fresh,
                     !.availableBalance = @ + fresh,
                     !.totalRevenue = @ + fresh,
                     !.totalProfit = @ + 4 * fresh]

\* the additive update of the user's totals by a positive polled total
CreditEarnings(user, total) ==
    [user EXCEPT !.totalEarnings = @ + total,
                 !.availableBalance = @ + total,
                 !.totalRevenue = @ + total,
                 !.totalProfit = @ + 4 * total]

\* an entry of the trace of a tick: a cycle run for a keyword, the pause after
\* it, or the catch of what the cycle raised
Step(what, keyword) == [what |-> what, keyword |-> keyword]

\* the for loop over config.keywords from the k-th keyword on; envs[k] is the
\* world the k-th cycle meets. A cycle that raises skips its pause.
RECURSIVE RunKeywords(_, _, _, _)
RunKeywords(keywords, k, platforms, envs) ==
    IF k > Len(keywords) THEN [searchResults |-> <<>>, trace |-> <<>>]
    ELSE LET out == runBotCycle(keywords[k], platforms, envs[k])
             rest == RunKeywords(keywords, k + 1, platforms, envs)
         IN  IF out.threw
             THEN [searchResults |-> rest.searchResults,
                   trace |-> <<Step("cycle", keywords[k]), Step("caught", keywords[k])>>
                             \o rest.trace]
             ELSE [searchResults |-> out.results \o rest.searchResults,
                   trace |-> <<Step("cycle", keywords[k]), Step("pause", keywords[k])>>
                             \o rest.trace]

\* the interval timer `timer` fires: runRealBotCycle up to its first await. The
\* invocation keeps the configuration object it read.
TimerFire(timer) ==
    /\ timer \in 1..Len(timers)
    /\ timers[timer].live
    /\ LET userId == timers[timer].userId
           platform == timers[timer].platform
       IN  IF ~TickProceeds(userId, platform)
           THEN /\ lastOp' = Op("tick_skipped", TRUE, "")
                /\ emitted' = <<>>
                /\ UNCHANGED <<registries, streak, untracked, started, race, surroundings, polled>>
           ELSE /\ BagCardinality(ticks) < MaxInFlight
                /\ ticks' = ticks (+) SetToBag({[userId |-> userId, platform |-> platform,
                                config |-> userConfigs[Key(userId, platform)]]})
                /\ lastOp' = Op("tick_started", TRUE, "")
                /\ emitted' = <<Event("bot_activity", userId, "fetching")>>
                /\ race' = IF \E p \in BagToSet(pending) : p.data.userId = userId
                           THEN RaceOpens(userId) ELSE race
                /\ UNCHANGED <<users, userConfigs, botIntervals, timers, manuals, withdrawals,
                             pending, streak, untracked, started, surroundings, polled>>

\* (mutant) earnings are credited only while the bot is still active
ShouldCreditWhileActive(user, platform, earnings) ==
    earnings.total > 0 /\ user.activeBots[platform]

\* if (earnings.total > 0): the test the tick makes after the poll. Nothing of
\* the user's record is looked at again, the active flag included.
ShouldCredit(user, platform, earnings) == earnings.total > 0

\* (mutant) the completion line is emitted before the earnings are reported
TickEventsCompletedFirst(userId, credited) ==
    <<Event("bot_activity", userId, "completed")>>
    \o (IF credited
        THEN <<Event("earning_update", userId, "earnings"),
               Event("bot_activity", userId, "real earnings")>>
        ELSE <<>>)

\* (mutant) an earning_update is emitted whatever was polled
TickEventsAlways(userId, credited) ==
    <<Event("earning_update", userId, "earnings"),
      Event("bot_activity", userId, "real earnings"),
      Event("bot_activity", userId, "completed")>>

\* the events a tick emits after the poll: the earning update and its activity
\* line when earnings were credited, then the completion line
TickEvents(userId, credited) ==
    (IF credited
     THEN <<Event("earning_update", userId, "earnings"),
            Event("bot_activity", userId, "real earnings")>>
     ELSE <<>>)
    \o <<Event("bot_activity", userId, "completed")>>

\* what a tick does between its guard and the test of the polled total, in
\* order: the keyword loop, then the one earnings poll
TickSteps(config, envs) ==
    RunKeywords(config.keywords, 1, config.platforms, envs).trace
    \o <<Step("poll", "")>>

\* The rest of a runRealBotCycle invocation. From its first await to the return
\* of the earnings poll it reads and writes its own locals only, so the awaits
\* in between are folded into this step: the keyword loop, the poll, and the
\* block after the poll, which runs without an await.
TickFinishesWith(tick, envs, replies) ==
    /\ BagIn(tick, ticks)
    /\ Iterable(tick.config.keywords)
    /\ LET loop == RunKeywords(tick.config.keywords, 1, tick.config.platforms, envs)
           earnings == trackAffiliateEarnings(replies)
           credited == ShouldCredit(users[tick.userId], tick.platform, earnings)
       IN  /\ credited =>
                 users[tick.userId].totalEarnings + earnings.total <= MaxEarnings
           /\ users' = IF credited
                       THEN [users EXCEPT ![tick.userId] =
                                CreditEarnings(@, earnings.total)]
                       ELSE users
           /\ emitted' = TickEvents(tick.userId, credited)
           /\ lastOp' = Op("tick_finished", TRUE, "")
           /\ race' = RaceTicked(tick.userId,
                                 IF earnings.total > 0 THEN earnings.total ELSE 0,
                                 users'[tick.userId].availableBalance)
           /\ polled' = IF earnings.total > 0
                        THEN [polled EXCEPT ![tick.userId] = Append(@, earnings.total)]
                        ELSE polled
    /\ ticks' = ticks (-) SetToBag({tick})
    /\ UNCHANGED <<userConfigs, botIntervals, timers, manuals, withdrawals, pending,
                   streak, untracked, started, surroundings>>

\* (mutant) the manual cycle credits the total it polled
ManualFinishesCredits(manual) ==
    /\ BagIn(manual, manuals)
    /\ manual.userId \in DOMAIN users
    /\ \E replies \in TickReplies :
          LET earnings == trackAffiliateEarnings(replies)
          IN  /\ earnings.total > 0
              /\ users[manual.userId].totalEarnings + earnings.total <= MaxEarnings
              /\ users' = [users EXCEPT ![manual.userId] = CreditEarnings(@, earnings.total)]
    /\ lastOp' = Op("manual", TRUE, "")
    /\ manuals' = manuals (-) SetToBag({manual})
    /\ emitted' = <<>>
    /\ UNCHANGED <<userConfigs, botIntervals, timers, ticks, withdrawals, pending,
                   streak, untracked, started, race, surroundings, polled>>

\* The rest of an invocation whose keywords cannot be iterated: the for
\* statement raises a TypeError, which the outer catch reports. No cycle is
\* run and no poll made.
TickFails(tick) ==
    /\ BagIn(tick, ticks)
    /\ ~Iterable(tick.config.keywords)
    /\ emitted' = <<Event("bot_activity", tick.userId, "failed")>>
    /\ lastOp' = Op("tick_finished", FALSE, "TypeError")
    /\ race' = RaceTicked(tick.userId, 0, users[tick.userId].availableBalance)
    /\ ticks' = ticks (-) SetToBag({tick})
    /\ UNCHANGED <<users, userConfigs, botIntervals, timers, manuals, withdrawals, pending,
                   streak, untracked, started, surroundings, polled>>

\* a tick in flight ends, in some world
TickFinishes(tick) ==
    IF Iterable(tick.config.keywords)
    THEN \E envs \in TickWorlds(Len(tick.config.keywords)), replies \in TickReplies :
            TickFinishesWith(tick, envs, replies)
    ELSE TickFails(tick)

(* --------------------- BotManager.runManualCycle ---------------------- *)

NotStarted == "Bot not started - start the bot first"

\* runManualCycle up to its first await: the configuration check, the event
ManualStart(userId, platform, keyword) ==
    IF Key(userId, platform) \notin DOMAIN userConfigs
    THEN /\ lastOp' = Op("manual", FALSE, NotStarted)
         /\ emitted' = <<>>
         /\ UNCHANGED <<registries, streak, untracked, started, race, surroundings, polled>>
    ELSE /\ BagCardinality(manuals) < MaxInFlight
         /\ manuals' = manuals (+) SetToBag({[userId |-> userId, platform |-> platform,
                                              keyword |-> keyword]})
         /\ lastOp' = Op("manual_started", TRUE, "")
         /\ emitted' = <<Event("bot_activity", userId, "manual run")>>
         /\ UNCHANGED <<users, userConfigs, botIntervals, timers, ticks, withdrawals, pending,
                   streak, untracked, started, race, surroundings, polled>>

\* the rest of runManualCycle: the cycle and the earnings poll return (or the
\* cycle raises, which is thrown on); nothing is written
ManualFinishes(manual) ==
    /\ BagIn(manual, manuals)
    /\ \E env \in TickEnvs, replies \in TickReplies :
          LET results == runBotCycle(manual.keyword, <<manual.platform>>, env)
              earnings == trackAffiliateEarnings(replies)
          IN  lastOp' = IF results.threw THEN Op("manual", FALSE, "TypeError")
                        ELSE Op("manual", TRUE, "")
    /\ manuals' = manuals (-) SetToBag({manual})
    /\ emitted' = <<>>
    /\ UNCHANGED <<users, userConfigs, botIntervals, timers, ticks, withdrawals, pending,
                   streak, untracked, started, race, surroundings, polled>>

(* ------------------------- POST /api/withdraw ------------------------- *)

WithdrawalData(userId, amount, method) ==
    [userId |-> userId, amount |-> amount, method |-> method]

\* req.body of POST /api/withdraw: every method for one user, a bank transfer
\* for the other
WithdrawalRequests ==
    {WithdrawalData("default", 1, "stripe"), WithdrawalData("default", 1, "paypal"),
     WithdrawalData("default", 2, "bank"), WithdrawalData("default", 1, "crypto"),
     WithdrawalData("default_user", 1, "bank")}

\* what the payment processor does with the call: it raises, or it answers with
\* the status of the payment
Answer(raised, status) == [raised |-> raised, status |-> status]

PaymentAnswers ==
    {Answer(TRUE, ""), Answer(FALSE, "succeeded"), Answer(FALSE, "COMPLETED"),
     Answer(FALSE, "requires_action")}

\* processWithdrawal raised
Thrown(error) ==
    [threw |-> TRUE, error |-> error, success |-> FALSE, transactionId |-> "",
     fee |-> 0, processingTime |-> ""]

\* the paymentResult processWithdrawal returns; fee in ten-thousandths of a unit
PaymentResult(success, transactionId, fee, processingTime) ==
    [threw |-> FALSE, error |-> "", success |-> success, transactionId |-> transactionId,
     fee |-> fee, processingTime |-> processingTime]

\* whether processWithdrawal waits for a processor: Stripe, or PayPal when its
\* client is configured. Otherwise it returns or raises without waiting.
Suspends(withdrawalData, client) ==
    \/ withdrawalData.method = "stripe"
    \/ withdrawalData.method = "paypal" /\ client

\* (mutant) whatever status Stripe answers with counts as paid
processWithdrawalAnyStatus(withdrawalData, client, answer, time) ==
    CASE withdrawalData.method = "stripe" ->
            IF answer.raised THEN Thrown("processor error")
            ELSE PaymentResult(TRUE, "txn", 290 * withdrawalData.amount + 3000, "instant")
      [] withdrawalData.method = "paypal" ->
            IF ~client THEN Thrown("PayPal not configured")
            ELSE IF answer.raised THEN Thrown("processor error")
            ELSE PaymentResult(answer.status = "COMPLETED", "txn",
                               349 * withdrawalData.amount + 3000, "instant")
      [] withdrawalData.method = "bank" ->
            PaymentResult(TRUE, "bank_" \o ToString(time), 0, "1-3 business days")
      [] OTHER -> Thrown("Unsupported payment method")

processWithdrawal(withdrawalData, client, answer, time) ==
    CASE withdrawalData.method = "stripe" ->
            IF answer.raised THEN Thrown("processor error")
            ELSE PaymentResult(answer.status = "succeeded", "txn",
                               290 * withdrawalData.amount + 3000, "instant")
      [] withdrawalData.method = "paypal" ->
            IF ~client THEN Thrown("PayPal not configured")
            ELSE IF answer.raised THEN Thrown("processor error")
            ELSE PaymentResult(answer.status = "COMPLETED", "txn",
                               349 * withdrawalData.amount + 3000, "instant")
      [] withdrawalData.method = "bank" ->
            PaymentResult(TRUE, "bank_" \o ToString(time), 0, "1-3 business days")
      [] OTHER -> Thrown("Unsupported payment method")

\* 'withdraw_' + Date.now()
WithdrawalId(time) == "withdraw_" \o ToString(time)

\* the withdrawal record of a payment that succeeded, dated when it is made
Withdrawal(withdrawalId, withdrawalData, paymentResult, time) ==
    [id |-> withdrawalId, userId |-> withdrawalData.userId,
     amount |-> withdrawalData.amount, method |-> withdrawalData.method,
     date |-> time, status |-> "completed",
     transactionId |-> paymentResult.transactionId, fee |-> paymentResult.fee,
     processingTime |-> paymentResult.processingTime]

\* what a paid withdrawal does to the user's record: the amount is taken from
\* the balance, whatever the balance is, and the record goes to the front of
\* the history
Debit(user, withdrawal) ==
    [user EXCEPT !.availableBalance = @ - withdrawal.amount,
                 !.withdrawalHistory = <<withdrawal>> \o @]

\* (mutant) the catch block answers the request without emitting the failure
SettleQuietFailure(withdrawalId, withdrawalData, paymentResult, suspended) ==
    LET userId == withdrawalData.userId
        withdrawal == Withdrawal(withdrawalId, withdrawalData, paymentResult, now)
    IN  IF ~paymentResult.threw /\ paymentResult.success
        THEN /\ users' = IF userId \in DOMAIN users
                         THEN [users EXCEPT ![userId] = Debit(@, withdrawal)]
                         ELSE users
             /\ withdrawals' = MapSet(withdrawals, withdrawalId, withdrawal)
             /\ emitted' = <<Event("withdrawal_status", userId, "completed")>>
             /\ lastOp' = Op("withdraw", TRUE, "")
             /\ race' = IF userId \in DOMAIN users
                        THEN RacePaid(userId, withdrawalData.amount,
                                      users'[userId].availableBalance, suspended)
                        ELSE race
        ELSE /\ emitted' = <<>>
             /\ lastOp' = Op("withdraw", FALSE,
                             IF paymentResult.threw THEN paymentResult.error
                             ELSE "Payment processing failed")
             /\ race' = IF userId \in DOMAIN users
                        THEN RacePaid(userId, 0, users[userId].availableBalance, suspended)
                        ELSE race
             /\ UNCHANGED <<users, withdrawals>>

\* the handler from the return of processWithdrawal on, which runs without an
\* await: the payment succeeded, or it failed or raised
Settle(withdrawalId, withdrawalData, paymentResult, suspended) ==
    LET userId == withdrawalData.userId
        withdrawal == Withdrawal(withdrawalId, withdrawalData, paymentResult, now)
    IN  IF ~paymentResult.threw /\ paymentResult.success
        THEN /\ users' = IF userId \in DOMAIN users
                         THEN [users EXCEPT ![userId] = Debit(@, withdrawal)]
                         ELSE users
             /\ withdrawals' = MapSet(withdrawals, withdrawalId, withdrawal)
             /\ emitted' = <<Event("withdrawal_status", userId, "completed")>>
             /\ lastOp' = Op("withdraw", TRUE, "")
             /\ race' = IF userId \in DOMAIN users
                        THEN RacePaid(userId, withdrawalData.amount,
                                      users'[userId].availableBalance, suspended)
                        ELSE race
        ELSE /\ emitted' = <<Event("withdrawal_status", userId, "failed")>>
             /\ lastOp' = Op("withdraw", FALSE,
                             IF paymentResult.threw THEN paymentResult.error
                             ELSE "Payment processing failed")
             /\ race' = IF userId \in DOMAIN users
                        THEN RacePaid(userId, 0, users[userId].availableBalance, suspended)
                        ELSE race
             /\ UNCHANGED <<users, withdrawals>>

\* POST /api/withdraw up to the await of the processor; the whole handler when
\* processWithdrawal does not wait
Withdraw(withdrawalData) ==
    /\ withdrawalData.userId \in DOMAIN users =>
          Len(users[withdrawalData.userId].withdrawalHistory) + BagCardinality(pending)
              < MaxWithdrawals
    /\ IF Suspends(withdrawalData, paypalClient)
       THEN /\ BagCardinality(pending) < MaxInFlight
            /\ pending' = pending (+) SetToBag({[withdrawalId |-> WithdrawalId(now),
                                                 data |-> withdrawalData]})
            /\ lastOp' = Op("withdraw_started", TRUE, "")
            /\ emitted' = <<>>
            /\ race' = IF \E tick \in BagToSet(ticks) : tick.userId = withdrawalData.userId
                       THEN RaceOpens(withdrawalData.userId) ELSE race
            /\ UNCHANGED <<users, withdrawals>>
       ELSE /\ Settle(WithdrawalId(now), withdrawalData,
                      processWithdrawal(withdrawalData, paypalClient, Answer(TRUE, ""), now),
                      FALSE)
            /\ UNCHANGED pending
    /\ UNCHANGED <<userConfigs, botIntervals, timers, ticks, manuals, streak, untracked,
                   started, surroundings, polled>>

\* the processor answers a suspended request: the rest of the handler
WithdrawSettles(request, answer) ==
    /\ BagIn(request, pending)
    /\ Settle(request.withdrawalId, request.data,
              processWithdrawal(request.data, paypalClient, answer, now), TRUE)
    /\ pending' = pending (-) SetToBag({request})
    /\ UNCHANGED <<userConfigs, botIntervals, timers, ticks, manuals, streak, untracked,
                   started, surroundings, polled>>

\* a millisecond passes
ClockAdvance ==
    /\ now < MaxClock
    /\ now' = now + 1
    /\ UNCHANGED <<registries, lastOp, emitted, streak, untracked, started, race,
                   polled, paypalClient, cycleIn, cycleOut, callIn, callOut>>

(* ---------- POST /api/track-earnings, the background earnings poll ----- *)

\* the module's function trackAffiliateEarnings(userId): it returns an object
\* with a total and a breakdown, not a list
trackUserEarnings(userId, replies) ==
    IF userId \notin DOMAIN users THEN [total |-> 0, breakdown |-> <<>>]
    ELSE LET realEarnings == trackAffiliateEarnings(replies)
         IN  [total |-> realEarnings.total,
              breakdown |-> [amazon |-> realEarnings.amazon,
                             clickbank |-> realEarnings.clickbank,
                             ebay |-> realEarnings.ebay],
              source |-> "real-api"]

\* earnings.length > 0: undefined > 0 is false for an object without a length
HasLength(earnings) == "length" \in DOMAIN earnings /\ earnings.length > 0

\* earnings.forEach(...) from the i-th entry on: each entry's amount is credited
RECURSIVE CreditEach(_, _, _)
CreditEach(user, earnings, i) ==
    IF i > earnings.length THEN user
    ELSE CreditEach(CreditEarnings(user, earnings[i].amount), earnings, i + 1)

\* the events forEach emits
EarningEvents(userId, earnings) ==
    [i \in 1..earnings.length |-> Event("earning_update", userId, "earnings")]

\* POST /api/track-earnings; the await touches no shared state
TrackEarnings(userId) ==
    /\ \E replies \in TickReplies :
          LET earnings == trackUserEarnings(userId, replies)
              credits == userId \in DOMAIN users /\ HasLength(earnings)
          IN  /\ users' = IF credits
                          THEN [users EXCEPT ![userId] = CreditEach(@, earnings, 1)]
                          ELSE users
              /\ emitted' = IF credits THEN EarningEvents(userId, earnings) ELSE <<>>
    /\ lastOp' = Op("track_earnings", TRUE, "")
    /\ UNCHANGED <<userConfigs, botIntervals, timers, ticks, manuals, withdrawals, pending,
                   streak, untracked, started, race, surroundings, polled>>

\* (mutant) the background poll credits the total to every user
BackgroundPollCredits ==
    /\ \E replies \in TickReplies :
          LET total == trackAffiliateEarnings(replies).total
          IN  /\ total > 0
              /\ \A userId \in DOMAIN users :
                    users[userId].totalEarnings + total <= MaxEarnings
              /\ users' = [userId \in DOMAIN users |-> CreditEarnings(users[userId], total)]
              /\ emitted' = <<>>
    /\ lastOp' = Op("background_poll", TRUE, "")
    /\ UNCHANGED <<userConfigs, botIntervals, timers, ticks, manuals, withdrawals, pending,
                   streak, untracked, started, race, surroundings, polled>>

\* the 30-second timer: every user is polled in turn
BackgroundPoll ==
    /\ \E replies \in TickReplies :
          /\ users' = [userId \in DOMAIN users |->
                          LET earnings == trackUserEarnings(userId, replies)
                          IN  IF HasLength(earnings)
                              THEN CreditEach(users[userId], earnings, 1)
                              ELSE users[userId]]
          /\ emitted' = <<>>
    /\ lastOp' = Op("background_poll", TRUE, "")
    /\ UNCHANGED <<userConfigs, botIntervals, timers, ticks, manuals, withdrawals, pending,
                   streak, untracked, started, race, surroundings, polled>>

(* ------------------------------ routes -------------------------------- *)

Route(method, pattern, handler) == [method |-> method, pattern |-> pattern, handler |-> handler]

\* the routes of the application, in the order they are registered
Routes ==
    << Route("GET", <<"api", "user-data">>, "user-data"),
       Route("POST", <<"api", "track-earnings">>, "track-earnings"),
       Route("GET", <<"api", "crypto-balance", ":type", ":address">>, "crypto-balance"),
       Route("POST", <<"api", "bot", ":platform", ":action">>, "bot-action"),
       Route("POST", <<"api", "bot", ":platform", "cycle">>, "manual-cycle"),
       Route("GET", <<"api", "bot", ":platform", "status">>, "bot-status"),
       Route("POST", <<"api", "withdraw">>, "withdraw"),
       Route("POST", <<"api", "save-settings">>, "save-settings"),
       Route("POST", <<"api", "test-connections">>, "test-connections"),
       Route("POST", <<"start-server">>, "start-server"),
       Route("GET", <<"server-status">>, "server-status") >>

\* a segment of a pattern that is a parameter matches any segment of a path
Parameters == {":type", ":address", ":platform", ":action"}

Matches(route, method, path) ==
    /\ route.method = method
    /\ Len(route.pattern) = Len(path)
    /\ \A i \in 1..Len(path) :
          route.pattern[i] \in Parameters \/ route.pattern[i] = path[i]

\* the handler of a request: the route registered first among those that
\* match; no handler of this application passes the request on
Dispatch(method, path) ==
    LET matching == {i \in 1..Len(Routes) : Matches(Routes[i], method, path)}
    IN  IF matching = {} THEN NULL
        ELSE Routes[CHOOSE i \in matching : \A j \in matching : i <= j].handler

Body(userId, keywords, keyword) ==
    [userId |-> userId, keywords |-> keywords, keyword |-> keyword]

\* the bodies sent to the bot routes: one user, no keyword for a manual run
Bodies == {Body("default", keywords, UNDEFINED) : keywords \in KeywordLists}

\* the paths requested under /api/bot
BotPaths ==
    {<<"api", "bot", platform, action>> :
        platform \in Platforms, action \in {"start", "stop", "cycle"}}

\* the handler of POST /api/bot/:platform/:action
BotAction(platform, action, body) ==
    IF action = "start" THEN startBot(body.userId, platform, body.keywords)
    ELSE IF action = "stop" THEN stopBot(body.userId, platform)
    ELSE \* success stays false, and the response says so
         /\ lastOp' = Op(action, FALSE, "")
         /\ emitted' = <<>>
         /\ UNCHANGED <<registries, streak, untracked, started, race, surroundings, polled>>

\* the handler of POST /api/bot/:platform/cycle
ManualCycle(platform, body) ==
    ManualStart(body.userId, platform,
                IF body.keyword = UNDEFINED THEN "trending products" ELSE body.keyword)

\* a POST request arrives and is handled
HttpPost(path, body) ==
    LET handler == Dispatch("POST", path)
    IN  /\ handler \in {"bot-action", "manual-cycle"}
        /\ IF handler = "bot-action" THEN BotAction(path[3], path[4], body)
           ELSE ManualCycle(path[3], body)

(* ------------------ one call of RealBotEngine.runBotCycle -------------- *)

\* the sequences over S of length at most n
SeqsUpTo(S, n) == UNION {[1..k -> S] : k \in 0..n}

\* the items a search answers with; the third has no ItemInfo
ProductLists ==
    SeqsUpTo({Item("B01", TRUE), Item("B02", TRUE), Item("B03", FALSE)}, MaxProducts)

\* the platform lists the cycle is called with; 'linkedin' has no case
PlatformLists == SeqsUpTo({"twitter", "facebook", "tiktok", "linkedin"}, MaxPlatforms)

\* the publish calls of a cycle: (position of the product, position of the platform)
Cells == (1..MaxProducts) \X (1..MaxPlatforms)

\* what the platform APIs do, call by call: the same for all calls, something
\* else than an id on every other call, row or column, or an error on one call
ApiOracles ==
    {[x \in Cells |-> o] : o \in ApiOutcomes}
    \cup {[x \in Cells |-> IF (x[1] + x[2]) % 2 = par THEN o ELSE "id"] :
             par \in {0, 1}, o \in {"error", "noid"}}
    \cup {[x \in Cells |-> IF x[1] % 2 = par THEN "error" ELSE "id"] : par \in {0, 1}}
    \cup {[x \in Cells |-> IF x[2] % 2 = par THEN "error" ELSE "id"] : par \in {0, 1}}
    \cup {[x \in Cells |-> IF x = c THEN "error" ELSE "id"] : c \in Cells}

\* the search responses
Searches ==
    {Search(k, <<>>) : k \in {"error", "noitems", "object"}}
    \cup {Search("items", items) : items \in ProductLists}

CycleCall(keyword, platforms, env) ==
    [keyword |-> keyword, platforms |-> platforms, env |-> env]

\* the calls of runBotCycle that are looked at
CycleCalls ==
    {CycleCall("earbuds", platforms, CycleEnv(response, configured, api)) :
        platforms \in PlatformLists, response \in Searches,
        configured \in {{"twitter"}, {"twitter", "facebook"}}, api \in ApiOracles}

\* no call is looked at
NoCycle == CycleCall("", <<>>, CycleEnv(Search("error", <<>>), {}, <<>>))

\* the call has not returned
NotReturned == [returned |-> FALSE, threw |-> FALSE, results |-> <<>>, trace |-> <<>>]

\* the call is made and runs to its end
RunCycle ==
    /\ ~cycleOut.returned
    /\ LET out == runBotCycle(cycleIn.keyword, cycleIn.platforms, cycleIn.env)
       IN  cycleOut' = [returned |-> TRUE, threw |-> out.threw, results |-> out.results,
                        trace |-> out.trace]
    /\ UNCHANGED <<registries, now, paypalClient, cycleIn, callIn, callOut, lastOp,
                   emitted, streak, untracked, started, race, polled>>

(* --------------- one call of another method of the engine -------------- *)

\* no call is looked at
NoCall == [fn |-> "none"]

\* the call has not returned
NoAnswer == [returned |-> FALSE, value |-> NULL]

\* what a call of the engine leaves alone: the whole server
server == <<registries, lastOp, emitted, streak, untracked, started, race, polled, now,
            paypalClient, cycleIn, cycleOut>>

\* the calls of fetchAmazonProducts(keyword, maxProducts) that are looked at
FetchCalls ==
    {[fn |-> "fetchAmazonProducts", keyword |-> keyword, maxProducts |-> maxProducts,
      response |-> response] :
        keyword \in {"earbuds", "trending products"}, maxProducts \in 1..MaxCount,
        response \in Searches}

\* the call is made and returns
RunFetch ==
    /\ callIn.fn = "fetchAmazonProducts"
    /\ ~callOut.returned
    /\ callOut' = [returned |-> TRUE,
                   value |-> fetchAmazonProducts(callIn.keyword, callIn.maxProducts,
                                                 callIn.response)]
    /\ UNCHANGED <<server, callIn>>

\* the calls of a publisher that are looked at: each platform with a case, a
\* well-formed product, any set of platforms with credentials, any API answer
PublishCalls ==
    {[fn |-> "publish", platform |-> platform, product |-> product,
      configured |-> configured, outcome |-> outcome] :
        platform \in SwitchCases, product \in {Item("B01", TRUE), Item("B02", TRUE)},
        configured \in SUBSET SwitchCases, outcome \in ApiOutcomes}

\* the publisher of the platform is called and returns
RunPublish ==
    /\ callIn.fn = "publish"
    /\ ~callOut.returned
    /\ callOut' = [returned |-> TRUE,
                   value |-> Publish(callIn.platform, callIn.product, callIn.configured,
                                     callIn.outcome)]
    /\ UNCHANGED <<server, callIn>>

\* what an earnings provider may answer: it fails, or reports 0, 1 or 42
ProviderReplies == {Reply(FALSE, 0)} \cup {Reply(TRUE, v) : v \in {0, 1, 42}}

\* the calls of RealBotEngine.trackAffiliateEarnings() that are looked at
EarningsCalls ==
    {[fn |-> "trackAffiliateEarnings", replies |-> Replies(a, c, e)] :
        a \in ProviderReplies, c \in ProviderReplies, e \in ProviderReplies}

\* the earnings are collected
RunEarnings ==
    /\ callIn.fn = "trackAffiliateEarnings"
    /\ ~callOut.returned
    /\ callOut' = [returned |-> TRUE, value |-> trackAffiliateEarnings(callIn.replies)]
    /\ UNCHANGED <<server, callIn>>

\* the configurations a tick is looked at with: those start stores for one,
\* two and no keywords given (the three default keywords)
TickConfigs ==
    {BotConfig(platform, keywords) :
        platform \in Platforms,
        keywords \in {<<>>, <<"earbuds">>, <<"earbuds", "desk lamp">>}}

\* the ticks looked at: a configuration and a world for each of its cycles
TickCalls ==
    UNION {{[fn |-> "runRealBotCycle", config |-> config, envs |-> envs] :
               envs \in [1..Len(config.keywords) -> TickEnvs]} : config \in TickConfigs}

\* the tick runs from its guard to the return of its poll
RunTick ==
    /\ callIn.fn = "runRealBotCycle"
    /\ ~callOut.returned
    /\ callOut' = [returned |-> TRUE, value |-> TickSteps(callIn.config, callIn.envs)]
    /\ UNCHANGED <<server, callIn>>

(* ------------- the credited totals as JavaScript Numbers --------------- *)

\* A Number that is no whole number is written here as JavaScript prints it:
\* the shortest decimal that reads back as the same IEEE 754 double. 0.8 is no
\* binary fraction, so every product and sum below is rounded to 53 bits.

\* total * 0.8 for a whole total from 1 to 9
TimesEightTenths(total) ==
    IF total = 0 THEN "0"
    ELSE <<"0.8", "1.6", "2.4000000000000004", "3.2", "4", "4.800000000000001",
           "5.6000000000000005", "6.4", "7.2">>[total]

\* a + b = c for the profit a of a user and the share b of a total from 1 to 3
DoubleSums ==
    {<<"0", "0.8", "0.8">>, <<"0", "1.6", "1.6">>,
     <<"0", "2.4000000000000004", "2.4000000000000004">>,
     <<"0.8", "0.8", "1.6">>, <<"0.8", "1.6", "2.4000000000000004">>,
     <<"0.8", "2.4000000000000004", "3.2">>,
     <<"1.6", "0.8", "2.4000000000000004">>, <<"1.6", "1.6", "3.2">>,
     <<"1.6", "2.4000000000000004", "4">>,
     <<"2.4000000000000004", "0.8", "3.2">>, <<"2.4000000000000004", "1.6", "4">>,
     <<"2.4000000000000004", "2.4000000000000004", "4.800000000000001">>,
     <<"3.2", "0.8", "4">>, <<"3.2", "1.6", "4.800000000000001">>,
     <<"3.2", "2.4000000000000004", "5.6000000000000005">>,
     <<"4", "0.8", "4.8">>, <<"4", "1.6", "5.6">>, <<"4", "2.4000000000000004", "6.4">>,
     <<"4.800000000000001", "0.8", "5.6000000000000005">>,
     <<"4.800000000000001", "1.6", "6.4">>,
     <<"4.800000000000001", "2.4000000000000004", "7.200000000000001">>}

Plus(a, b) == (CHOOSE sum \in DoubleSums : sum[1] = a /\ sum[2] = b)[3]

\* the record lines 905-914 make, its profit as a Number
NewTotals == [NewUser EXCEPT !.totalProfit = "0"]

\* lines 827-830 on Numbers: whole totals add exactly, the profit does not
CreditNumbers(user, total) ==
    [user EXCEPT !.totalEarnings = @ + total,
                 !.availableBalance = @ + total,
                 !.totalRevenue = @ + total,
                 !.totalProfit = Plus(@, TimesEightTenths(total))]

\* what the polls of a user's ticks may report, one tick after the other
PolledTotals == {-1, 0, 1, 2, 3}

\* the ticks of one user that are looked at: the totals they poll, in order
CreditCalls ==
    {[fn |-> "credit", totals |-> totals] :
        totals \in SeqsUpTo(PolledTotals, MaxCredits) \ {<<>>}}

\* no tick of the user has ended
NoneCredited == [returned |-> FALSE, value |-> [user |-> NewTotals, credited |-> 0]]

\* the next tick of the user ends: lines 825-831
RunCredit ==
    /\ callIn.fn = "credit"
    /\ ~callOut.returned
    /\ LET k == callOut.value.credited + 1
           earnings == [total |-> callIn.totals[k]]
           user == callOut.value.user
       IN  callOut' = [returned |-> k = Len(callIn.totals),
                       value |-> [user |-> IF ShouldCredit(user, "twitter", earnings)
                                           THEN CreditNumbers(user, earnings.total)
                                           ELSE user,
                                  credited |-> k]]
    /\ UNCHANGED <<server, callIn>>

(* ------------------------------ behaviour ----------------------------- *)

Init ==
    /\ users = <<>>
    /\ userConfigs = <<>>
    /\ botIntervals = <<>>
    /\ timers = <<>>
    /\ ticks = EmptyBag
    /\ manuals = EmptyBag
    /\ lastOp = Op("boot", TRUE, "")
    /\ emitted = <<>>
    /\ streak = [userId |-> "", platform |-> "", starts |-> 0, stopped |-> FALSE]
    /\ untracked = {}
    /\ started = {}
    /\ race = NoRace
    /\ withdrawals = <<>>
    /\ pending = EmptyBag
    /\ now = 0
    /\ paypalClient \in BOOLEAN
    /\ cycleIn = NoCycle
    /\ cycleOut = NotReturned
    /\ callIn = NoCall
    /\ callOut = NoAnswer
    /\ polled = [u \in UserIds |-> <<>>]

Next ==
    \/ \E u \in UserIds : GetUserData(u)
    \/ \E r \in BotRequests, k \in KeywordLists : startBot(r[1], r[2], k)
    \/ \E r \in BotRequests : stopBot(r[1], r[2])
    \/ \E t \in 1..MaxTimers : TimerFire(t)
    \/ \E tick \in BagToSet(ticks) : TickFinishes(tick)

\* the bot manager: users, start, stop, the timers and their ticks
Spec == Init /\ [][Next]_vars

NextManual ==
    \/ Next
    \/ \E r \in BotRequests, k \in ManualKeywords : ManualStart(r[1], r[2], k)
    \/ \E manual \in BagToSet(manuals) : ManualFinishes(manual)

\* the bot manager with manual cycles
SpecManual == Init /\ [][NextManual]_vars

\* the bot whose ticks credit the user that withdraws
MoneyBots == {<<"default", "twitter">>}

NextMoney ==
    \/ \E r \in MoneyBots : GetUserData(r[1])
    \/ \E r \in MoneyBots : startBot(r[1], r[2], <<"earbuds">>)
    \/ \E t \in 1..MaxTimers : TimerFire(t)
    \/ \E tick \in BagToSet(ticks) : TickFinishes(tick)
    \/ \E d \in WithdrawalRequests : Withdraw(d)
    \/ \E request \in BagToSet(pending), answer \in PaymentAnswers :
          WithdrawSettles(request, answer)
    \/ BackgroundPoll
    \/ ClockAdvance

\* the users' money: earnings credited by ticks, withdrawals, the earnings polls
SpecMoney == Init /\ [][NextMoney]_vars

InitCycle ==
    /\ users = <<>>
    /\ userConfigs = <<>>
    /\ botIntervals = <<>>
    /\ timers = <<>>
    /\ ticks = EmptyBag
    /\ manuals = EmptyBag
    /\ withdrawals = <<>>
    /\ pending = EmptyBag
    /\ now = 0
    /\ paypalClient = FALSE
    /\ lastOp = Op("boot", TRUE, "")
    /\ emitted = <<>>
    /\ streak = [userId |-> "", platform |-> "", starts |-> 0, stopped |-> FALSE]
    /\ untracked = {}
    /\ started = {}
    /\ race = NoRace
    /\ cycleIn \in CycleCalls
    /\ cycleOut = NotReturned
    /\ callIn = NoCall
    /\ callOut = NoAnswer
    /\ polled = [u \in UserIds |-> <<>>]

\* one call of runBotCycle, for every call looked at
SpecCycle == InitCycle /\ [][RunCycle]_vars

\* the server as it starts, without a PayPal client, and no cycle looked at
Quiet ==
    /\ users = <<>>
    /\ userConfigs = <<>>
    /\ botIntervals = <<>>
    /\ timers = <<>>
    /\ ticks = EmptyBag
    /\ manuals = EmptyBag
    /\ withdrawals = <<>>
    /\ pending = EmptyBag
    /\ now = 0
    /\ paypalClient = FALSE
    /\ lastOp = Op("boot", TRUE, "")
    /\ emitted = <<>>
    /\ streak = [userId |-> "", platform |-> "", starts |-> 0, stopped |-> FALSE]
    /\ untracked = {}
    /\ started = {}
    /\ race = NoRace
    /\ polled = [u \in UserIds |-> <<>>]
    /\ cycleIn = NoCycle
    /\ cycleOut = NotReturned

InitFetch ==
    /\ Quiet
    /\ callIn \in FetchCalls
    /\ callOut = NoAnswer

\* one call of fetchAmazonProducts, for every call looked at
SpecFetch == InitFetch /\ [][RunFetch]_vars

InitPublish ==
    /\ Quiet
    /\ callIn \in PublishCalls
    /\ callOut = NoAnswer

\* one call of a publisher, for every call looked at
SpecPublish == InitPublish /\ [][RunPublish]_vars

InitEarnings ==
    /\ Quiet
    /\ callIn \in EarningsCalls
    /\ callOut = NoAnswer

\* one call of trackAffiliateEarnings, for every call looked at
SpecEarnings == InitEarnings /\ [][RunEarnings]_vars

NextRoutes ==
    \/ \E body \in Bodies : GetUserData(body.userId)
    \/ \E path \in BotPaths, body \in Bodies : HttpPost(path, body)
    \/ \E t \in 1..MaxTimers : TimerFire(t)
    \/ \E tick \in BagToSet(ticks) : TickFinishes(tick)

\* the bot manager driven through the routes under /api/bot
SpecRoutes == Init /\ [][NextRoutes]_vars

InitTick ==
    /\ Quiet
    /\ callIn \in TickCalls
    /\ callOut = NoAnswer

\* the steps of one tick, for every tick looked at
SpecTick == InitTick /\ [][RunTick]_vars

\* the bots of the two users
UserBots == {<<"default", "twitter">>, <<"default_user", "twitter">>}

\* a withdrawal of each user, by bank transfer: the handler does not wait
UserWithdrawals ==
    {WithdrawalData("default", 1, "bank"), WithdrawalData("default_user", 1, "bank")}

NextUsers ==
    \/ \E u \in UserIds : GetUserData(u)
    \/ \E r \in UserBots : startBot(r[1], r[2], <<"earbuds">>)
    \/ \E r \in UserBots : stopBot(r[1], r[2])
    \/ \E t \in 1..MaxTimers : TimerFire(t)
    \/ \E tick \in BagToSet(ticks) : TickFinishes(tick)
    \/ \E k \in ManualKeywords : ManualStart("default_user", "twitter", k)
    \/ \E manual \in BagToSet(manuals) : ManualFinishes(manual)
    \/ \E d \in UserWithdrawals : Withdraw(d)

\* the server as it starts, without a PayPal client
InitUsers ==
    /\ Init
    /\ paypalClient = FALSE

\* two users, each with a bot and withdrawals, one of them with manual cycles
SpecUsers == InitUsers /\ [][NextUsers]_vars

NextPolls ==
    \/ \E r \in MoneyBots : GetUserData(r[1])
    \/ \E r \in MoneyBots, k \in KeywordLists : startBot(r[1], r[2], k)
    \/ \E r \in MoneyBots : stopBot(r[1], r[2])
    \/ \E t \in 1..MaxTimers : TimerFire(t)
    \/ \E tick \in BagToSet(ticks) : TickFinishes(tick)
    \/ \E u \in UserIds : TrackEarnings(u)
    \/ BackgroundPoll

\* a bot and its ticks, with the two earnings polls
SpecPolls == Init /\ [][NextPolls]_vars

InitCredits ==
    /\ Quiet
    /\ callIn \in CreditCalls
    /\ callOut = NoneCredited

\* the totals of one user over the ticks that credit it, as Numbers
SpecCredits == InitCredits /\ [][RunCredit]_vars

NextWithdrawals ==
    \/ \E u \in UserIds : GetUserData(u)
    \/ \E d \in WithdrawalRequests : Withdraw(d)
    \/ \E request \in BagToSet(pending), answer \in PaymentAnswers :
          WithdrawSettles(request, answer)
    \/ ClockAdvance

\* the processor answers a suspended request for the withdrawal, or raises
ProcessorReturns(withdrawalData) ==
    \E request \in BagToSet(pending), answer \in PaymentAnswers :
        /\ request.data = withdrawalData
        /\ WithdrawSettles(request, answer)

\* the withdrawal requests of the users, every awaited processor call returning
SpecWithdrawals ==
    /\ Init
    /\ [][NextWithdrawals]_vars
    /\ \A d \in WithdrawalRequests : WF_vars(ProcessorReturns(d))

\* req.body.keywords of the starts whose ticks are followed to their end
TickKeywords == {<<>>, <<"earbuds">>, NotIterable}

NextTicks ==
    \/ \E r \in MoneyBots : GetUserData(r[1])
    \/ \E r \in MoneyBots, k \in TickKeywords : startBot(r[1], r[2], k)
    \/ \E r \in MoneyBots : stopBot(r[1], r[2])
    \/ \E t \in 1..MaxTimers : TimerFire(t)
    \/ \E tick \in BagToSet(ticks) : TickFinishes(tick)

\* the invocations of runRealBotCycle these starts can lead to
TickInvocations ==
    {[userId |-> r[1], platform |-> r[2], config |-> BotConfig(r[2], k)] :
        r \in MoneyBots, k \in TickKeywords}

\* the external calls and the delays of the invocation have all returned
TickReturns(tick) == BagIn(tick, ticks) /\ TickFinishes(tick)

\* a bot and its ticks, every awaited call and delay returning
SpecTicks ==
    /\ Init
    /\ [][NextTicks]_vars
    /\ \A tick \in TickInvocations : WF_vars(TickReturns(tick))

(* ------------------------------ claims -------------------------------- *)

\* a live timer whose callback runs the cycle for (userId, platform)
LiveTimerFor(userId, platform) ==
    \E t \in 1..Len(timers) :
        /\ timers[t].live
        /\ timers[t].userId = userId
        /\ timers[t].platform = platform

\* C1: once start has been called twice in succession for a (user, platform)
\* and stop has then been called once for it, no live timer that invokes the
\* cycle for that pair remains.
C1_NoTimerAfterStartStartStop ==
    (streak.starts = 2 /\ streak.stopped)
        => ~LiveTimerFor(streak.userId, streak.platform)

\* C2: a stop step leaves the user's flag for the platform false and no timer
\* tracked under the key, has cancelled the timer that was tracked, returns
\* success, and cancels nothing when no timer was tracked; and a timer that a
\* stop took out of the registry never fires again.
C2_StopCancelsTrackedTimer ==
    [][ /\ \A r \in BotRequests :
              stopBot(r[1], r[2]) =>
                  LET key == Key(r[1], r[2])
                  IN  /\ r[1] \in DOMAIN users' => ~users'[r[1]].activeBots[r[2]]
                      /\ key \notin DOMAIN botIntervals'
                      /\ lastOp' = Op("stop", TRUE, "")
                      /\ key \in DOMAIN botIntervals
                            => ~timers'[botIntervals[key]].live
                      /\ key \notin DOMAIN botIntervals => timers' = timers
        /\ \A t \in untracked : ~TimerFire(t) ]_vars

\* C2 witness: a stop has just cancelled the timer tracked under its key
C2_Witness ==
    /\ lastOp.op = "stop"
    /\ streak.stopped /\ streak.starts >= 1
    /\ untracked # {}
    /\ Key(streak.userId, streak.platform) \notin DOMAIN botIntervals

\* C3: a start that succeeds leaves the flag set, the stored configuration of
\* the key with the supplied keywords (the three default ones when none are
\* supplied) and the platform list [platform], and a live timer for the pair
\* tracked under the key; whatever configuration was stored before is gone.
C3_StartPostcondition ==
    [][ \A r \in BotRequests, k \in KeywordLists :
           (startBot(r[1], r[2], k) /\ lastOp'.ok) =>
               LET key == Key(r[1], r[2])
               IN  /\ users'[r[1]].activeBots[r[2]]
                   /\ key \in DOMAIN userConfigs'
                   /\ userConfigs'[key] =
                         [keywords |-> IF k # <<>> THEN k
                                       ELSE <<"trending", "popular", "bestseller">>,
                          platforms |-> <<r[2]>>]
                   /\ key \in DOMAIN botIntervals'
                   /\ timers'[botIntervals'[key]] =
                         [userId |-> r[1], platform |-> r[2], live |-> TRUE] ]_vars

\* C3 witness: a second start in succession has replaced the default
\* configuration of its key by the supplied keywords
C3_Witness ==
    /\ lastOp = Op("start", TRUE, "")
    /\ streak.starts = 2
    /\ userConfigs[Key(streak.userId, streak.platform)].keywords = <<"earbuds">>

\* C4: a timer tick for a pair whose active flag is not set emits nothing and
\* leaves the users, the registries, the timers and the invocations in flight
\* as they were (no cycle is run, no earnings are polled).
C4_InactiveTickIsNoOp ==
    [][ \A t \in 1..Len(timers) :
           (TimerFire(t) /\ ~IsActive(timers[t].userId, timers[t].platform))
               => (emitted' = <<>> /\ UNCHANGED registries) ]_vars

\* C4 witness: a tick has just been skipped, fired by a live timer of a pair
\* whose flag is not set
C4_Witness ==
    /\ lastOp.op = "tick_skipped"
    /\ \E t \in 1..Len(timers) :
          timers[t].live /\ ~IsActive(timers[t].userId, timers[t].platform)

\* C5: a manual cycle for a (user, platform) that was never started is
\* rejected with the 'not started' error, emits nothing and changes nothing.
C5_ManualNeverStartedRejected ==
    [][ \A r \in BotRequests, k \in ManualKeywords :
           (ManualStart(r[1], r[2], k) /\ r \notin started)
               => /\ lastOp' = Op("manual", FALSE, NotStarted)
                  /\ emitted' = <<>>
                  /\ UNCHANGED registries ]_vars

\* C6: when a withdrawal and a tick's earnings update of one user were in
\* flight together and both have ended, the balance they leave is the balance
\* they started from plus what the tick was to credit less what the withdrawal
\* was to take, which is what applying the two one after the other gives in
\* either order. (The background poll credits nothing, alone or interleaved.)
C6_RaceIsSerializable ==
    race.phase = "done" => race.after = race.before + race.credit - race.debit

\* C6 witness: a paid withdrawal and a crediting tick that were in flight
\* together have both ended
C6_Witness ==
    /\ race.phase = "done"
    /\ race.credit > 0
    /\ race.debit > 0

\* the records of the global index that bear the user's id
RecordedFor(userId) == {id \in DOMAIN withdrawals : withdrawals[id].userId = userId}

RECURSIVE SumOfAmounts(_)
SumOfAmounts(ids) ==
    IF ids = {} THEN 0
    ELSE LET id == CHOOSE x \in ids : TRUE
         IN  withdrawals[id].amount + SumOfAmounts(ids \ {id})

\* C7: for every user, availableBalance is totalEarnings less the sum of the
\* amounts of the withdrawals recorded for the user.
C7_BalanceIsEarningsLessWithdrawals ==
    \A u \in DOMAIN users :
        users[u].availableBalance =
            users[u].totalEarnings - SumOfAmounts(RecordedFor(u))

\* the payment of a withdrawal fails: the method is not supported, PayPal is
\* not configured, or the processor raises or answers with another status than
\* the one that means paid
PaymentFails(withdrawalData, answer) ==
    \/ withdrawalData.method \notin {"stripe", "paypal", "bank"}
    \/ withdrawalData.method = "paypal" /\ ~paypalClient
    \/ withdrawalData.method = "stripe"
          /\ (answer.raised \/ answer.status # "succeeded")
    \/ withdrawalData.method = "paypal"
          /\ (answer.raised \/ answer.status # "COMPLETED")

\* the step is a withdrawal request ending as failed with nothing changed
EndsFailed(withdrawalData) ==
    /\ UNCHANGED <<users, withdrawals>>
    /\ lastOp'.op = "withdraw" /\ ~lastOp'.ok
    /\ emitted' = <<Event("withdrawal_status", withdrawalData.userId, "failed")>>

\* C8: a withdrawal request whose payment fails or raises (unsupported
\* method and unconfigured PayPal included) leaves the users' balances and
\* histories and the global index as they were and ends with a failed status.
C8_FailedPaymentChangesNothing ==
    [][ /\ \A request \in BagToSet(pending), answer \in PaymentAnswers :
              (WithdrawSettles(request, answer) /\ PaymentFails(request.data, answer))
                  => EndsFailed(request.data)
        /\ \A d \in WithdrawalRequests :
              (Withdraw(d) /\ ~Suspends(d, paypalClient) /\ PaymentFails(d, Answer(TRUE, "")))
                  => EndsFailed(d) ]_vars

\* C8 witness: the processor has just reported a failure for the request of a
\* user who has a balance
C8_Witness ==
    /\ lastOp = Op("withdraw", FALSE, "Payment processing failed")
    /\ emitted = <<Event("withdrawal_status", "default", "failed")>>
    /\ "default" \in DOMAIN users
    /\ users["default"].availableBalance > 0

\* the step records the paid withdrawal of a user: one more record in the
\* global index, and that record at the front of the user's history
Records(withdrawalId, withdrawalData) ==
    LET userId == withdrawalData.userId
    IN  /\ Cardinality(DOMAIN withdrawals') = Cardinality(DOMAIN withdrawals) + 1
        /\ withdrawalId \in DOMAIN withdrawals'
        /\ withdrawals'[withdrawalId].amount = withdrawalData.amount
        /\ users'[userId].withdrawalHistory =
              <<withdrawals'[withdrawalId]>> \o users[userId].withdrawalHistory

\* C9: every withdrawal request of a user whose payment succeeds adds one
\* record to the global index and the same record to the front of the user's
\* history; so every user's history is ordered newest first and the global
\* index holds every record of every history.
C9_PaidWithdrawalIsRecordedTwice ==
    /\ [][ /\ \A request \in BagToSet(pending), answer \in PaymentAnswers :
                 (/\ WithdrawSettles(request, answer)
                  /\ lastOp'.ok
                  /\ request.data.userId \in DOMAIN users)
                     => Records(request.withdrawalId, request.data)
           /\ \A d \in WithdrawalRequests :
                 (/\ Withdraw(d)
                  /\ lastOp' = Op("withdraw", TRUE, "")
                  /\ d.userId \in DOMAIN users)
                     => Records(WithdrawalId(now), d) ]_vars
    /\ [](\A u \in DOMAIN users :
             LET history == users[u].withdrawalHistory
             IN  /\ \A i \in 1..Len(history) :
                       /\ history[i].id \in DOMAIN withdrawals
                       /\ withdrawals[history[i].id] = history[i]
                 /\ \A i \in 1..(Len(history) - 1) :
                       history[i].date >= history[i + 1].date)

\* the products the call fetched
Fetched == fetchAmazonProducts(cycleIn.keyword, 5, cycleIn.env.response).items

\* what the publish call for the i-th product and the j-th platform returned;
\* null when no call was made
Returned(i, j) ==
    IF Fetched[i].ItemInfo
    THEN Publish(cycleIn.platforms[j], Fetched[i], cycleIn.env.configured,
                 cycleIn.env.api[<<i, j>>]).postId
    ELSE NULL

\* the (product, platform) pairs of the call, by product and then by platform
Pairs ==
    LET m == Len(cycleIn.platforms)
    IN  [k \in 1..(Len(Fetched) * m) |-> <<((k - 1) \div m) + 1, ((k - 1) % m) + 1>>]

\* the pairs whose publish returned an identifier
PublishedPairs == SelectSeq(Pairs, LAMBDA c : Returned(c[1], c[2]) \notin {NULL, UNDEFINED})

\* C10: the list runBotCycle returns has exactly one PostResult for each
\* (product, platform) pair whose publish returned an identifier, none for a
\* pair whose publish returned null, in the order of the products fetched and
\* then of the platforms asked for.
C10_OnePostResultPerPublishedPair ==
    (cycleOut.returned /\ ~cycleOut.threw) =>
        /\ Len(cycleOut.results) = Len(PublishedPairs)
        /\ \A k \in 1..Len(PublishedPairs) :
              LET i == PublishedPairs[k][1]
                  j == PublishedPairs[k][2]
              IN  /\ cycleOut.results[k].platform = cycleIn.platforms[j]
                  /\ cycleOut.results[k].postId = Returned(i, j)
                  /\ cycleOut.results[k].product = Title(Fetched[i])

\* C10 witness: two products and two platforms that post give four results,
\* the two of the first product first
C10_Witness ==
    /\ cycleOut.returned
    /\ Len(Fetched) = 2
    /\ cycleIn.platforms = <<"twitter", "tiktok">>
    /\ Len(cycleOut.results) = 4
    /\ cycleOut.results[2].platform = "tiktok"
    /\ cycleOut.results[3].product = Title(Fetched[2])

\* C11: a call of runBotCycle never raises to its caller, whatever the search
\* and the publishers do, and returns the empty list when every publisher
\* returned null.
C11_CycleNeverRaises ==
    cycleOut.returned =>
        /\ ~cycleOut.threw
        /\ (\A k \in 1..Len(Pairs) : Returned(Pairs[k][1], Pairs[k][2]) = NULL)
              => cycleOut.results = <<>>

\* C12: fetchAmazonProducts returns a list of at most maxProducts products,
\* however many items the response holds.
C12_AtMostMaxProducts ==
    callOut.returned =>
        /\ callOut.value.iterable
        /\ Len(callOut.value.items) <= callIn.maxProducts

\* C13: when the provider fails (the request raises, or the response is
\* malformed) fetchAmazonProducts returns the empty list.
C13_FailureGivesEmptyList ==
    (callOut.returned /\ callIn.response.kind \in {"error", "object"}) =>
        callOut.value = [iterable |-> TRUE, items |-> <<>>]

\* C14: a publisher whose platform has no credentials configured returns
\* null without attempting an external call.
C14_UnconfiguredPublisherReturnsNull ==
    (callOut.returned /\ callIn.platform \notin callIn.configured) =>
        callOut.value = Published(NULL, FALSE)

\* what a provider contributes: the value it reports, 0 when it fails
Contribution(reply) == IF reply.ok THEN reply.totalEarnings ELSE 0

\* C15: every provider contributes the value it reports, or 0 when it fails,
\* whatever the providers asked before it did, and the total is the sum of
\* the three contributions.
C15_TotalIsSumOfContributions ==
    callOut.returned =>
        /\ callOut.value.amazon = Contribution(callIn.replies.amazon)
        /\ callOut.value.clickbank = Contribution(callIn.replies.clickbank)
        /\ callOut.value.ebay = Contribution(callIn.replies.ebay)
        /\ callOut.value.total =
              Contribution(callIn.replies.amazon) + Contribution(callIn.replies.clickbank)
              + Contribution(callIn.replies.ebay)

\* C15 witness: the first provider failed, the second reported 42, the third
\* failed, and the total is 42
C15_Witness ==
    /\ callOut.returned
    /\ callIn.replies = Replies(Reply(FALSE, 0), Reply(TRUE, 42), Reply(FALSE, 0))
    /\ callOut.value.total = 42

\* C16: a POST request to /api/bot/<platform>/cycle is handled by the manual
\* cycle handler: the step it makes is the step of runManualCycle for the
\* user of the body and the platform of the path.
C16_CyclePathRunsManualCycle ==
    [][\A platform \in Platforms, body \in Bodies :
          HttpPost(<<"api", "bot", platform, "cycle">>, body)
              => ManualCycle(platform, body)]_vars

\* C17: a manual cycle for a (user, platform) is rejected with the 'not
\* started' error if and only if start has never succeeded for that pair; a
\* stop in between changes nothing to this.
C17_ManualRejectedIffNeverStarted ==
    [][ \A r \in BotRequests, k \in ManualKeywords :
           ManualStart(r[1], r[2], k)
               => ((lastOp' = Op("manual", FALSE, NotStarted)) <=> r \notin started) ]_vars

\* the step is the end of the tick, its poll answered with replies
EndsWith(tick, replies) ==
    /\ lastOp'.op = "tick_finished"
    /\ \E envs \in TickWorlds(Len(tick.config.keywords)) :
          TickFinishesWith(tick, envs, replies)

\* the earning_update events among the events emitted by the step
EarningUpdates(events) == {i \in DOMAIN events : events[i].type = "earning_update"}

\* C18: stop does not interrupt a tick in flight. A tick that ends when its
\* bot has been stopped still ends as a completed tick, and if the total it
\* polled is positive it credits the user's totals and emits earning_update
\* to the user's room.
C18_StoppedTickStillCredits ==
    [][ \A tick \in BagToSet(ticks), replies \in TickReplies :
           LET total == trackAffiliateEarnings(replies).total
               userId == tick.userId
           IN  (/\ ~IsActive(userId, tick.platform)
                /\ total > 0
                /\ EndsWith(tick, replies))
                   => /\ ticks' = ticks (-) SetToBag({tick})
                      /\ users'[userId].totalEarnings = users[userId].totalEarnings + total
                      /\ users'[userId].availableBalance
                            = users[userId].availableBalance + total
                      /\ \E i \in EarningUpdates(emitted') : emitted'[i].room = userId
                      /\ emitted'[Len(emitted')] = Event("bot_activity", userId, "completed")
                      /\ ~IsActive(userId, tick.platform)' ]_vars

\* C18 witness: a tick has just ended with an earning update for a user all of
\* whose bots are stopped, the last of them by a stop that returned
C18_Witness ==
    /\ lastOp.op = "tick_finished"
    /\ \E userId \in DOMAIN users :
          /\ \E i \in EarningUpdates(emitted) : emitted[i].room = userId
          /\ \A platform \in Platforms : ~users[userId].activeBots[platform]
          /\ users[userId].totalEarnings > 0

\* C19: at the end of a tick that polled the total T: if T > 0 then
\* totalEarnings, availableBalance and totalRevenue of the user each grow by
\* exactly T, totalProfit by 0.8 T (4 T in fifths) and one earning_update is
\* emitted; if T <= 0 no total of any user changes and no earning_update is
\* emitted.
C19_PositiveTotalIsCreditedOnce ==
    [][ \A tick \in BagToSet(ticks), replies \in TickReplies :
           LET T == trackAffiliateEarnings(replies).total
               before == users[tick.userId]
               after == users'[tick.userId]
           IN  EndsWith(tick, replies)
                   => IF T > 0
                      THEN /\ after.totalEarnings = before.totalEarnings + T
                           /\ after.availableBalance = before.availableBalance + T
                           /\ after.totalRevenue = before.totalRevenue + T
                           /\ after.totalProfit = before.totalProfit + 4 * T
                           /\ Cardinality(EarningUpdates(emitted')) = 1
                      ELSE /\ users' = users
                           /\ EarningUpdates(emitted') = {} ]_vars

\* C19 witness: a tick has just ended crediting the total 2 to a user that had
\* nothing
C19_Witness ==
    /\ lastOp.op = "tick_finished"
    /\ Cardinality(EarningUpdates(emitted)) = 1
    /\ \E userId \in DOMAIN users :
          /\ polled[userId] = <<2>>
          /\ users[userId].totalEarnings = 2
          /\ users[userId].availableBalance = 2
          /\ users[userId].totalRevenue = 2
          /\ users[userId].totalProfit = 8

RECURSIVE SumOfTotals(_)
SumOfTotals(totals) ==
    IF totals = <<>> THEN 0 ELSE totals[1] + SumOfTotals(Tail(totals))

\* C20: nothing is diffed. Every ended tick that polled a positive total T
\* added the whole of T: a user's totalEarnings is the sum of the positive
\* totals polled by the ended ticks of the user's bots, k T after k ticks that
\* polled the same T.
C20_EveryPollAddsItsWholeTotal ==
    \A userId \in UserIds :
        IF userId \in DOMAIN users
        THEN users[userId].totalEarnings = SumOfTotals(polled[userId])
        ELSE polled[userId] = <<>>

\* C20 witness: two ticks of a user ended with the same total 1, and the
\* user's totalEarnings is 2
C20_Witness ==
    \E userId \in DOMAIN users :
        /\ polled[userId] = <<1, 1>>
        /\ users[userId].totalEarnings = 2

\* a cycle and the pause after it for each keyword, in order
RECURSIVE CyclesAndPauses(_)
CyclesAndPauses(keywords) ==
    IF keywords = <<>> THEN <<>>
    ELSE <<Step("cycle", keywords[1]), Step("pause", keywords[1])>>
         \o CyclesAndPauses(Tail(keywords))

\* C21: a tick that passed its guard runs the cycle once for each configured
\* keyword, in the configured order, with a pause after each, and polls the
\* earnings once, after the last keyword, whether or not a cycle failed.
C21_CyclePauseForEachKeywordThenPoll ==
    callOut.returned =>
        callOut.value = CyclesAndPauses(callIn.config.keywords) \o <<Step("poll", "")>>

\* the ends of the products' turns in the trace of the call: the delay waited
\* after a product, or the catch of what it raised
TurnEnds == SelectSeq(cycleOut.trace, LAMBDA e : e.what \in {"delay", "caught"})

\* C22: an exception raised while a product is processed is confined to that
\* product: every product fetched has its turn, in order, the products after
\* the one that raised included, and they end with the delay unless they raise
\* themselves; and the result of every publish that returned an identifier,
\* for the products before and after it, is in the list returned.
C22_ExceptionConfinedToProduct ==
    (cycleOut.returned /\ ~cycleOut.threw) =>
        \A i \in 1..Len(Fetched) :
            ~Fetched[i].ItemInfo =>
                /\ Len(TurnEnds) = Len(Fetched)
                /\ TurnEnds[i] = Trace("caught", "", Fetched[i].ASIN)
                /\ \A n \in 1..Len(Fetched) :
                      Fetched[n].ItemInfo => TurnEnds[n] = Trace("delay", "", Fetched[n].ASIN)
                /\ \A k \in 1..Len(PublishedPairs) :
                      LET p == PublishedPairs[k][1]
                          j == PublishedPairs[k][2]
                      IN  \E r \in 1..Len(cycleOut.results) :
                              cycleOut.results[r] =
                                  PostResult(cycleIn.platforms[j], Returned(p, j), Fetched[p])

\* C22 witness: of three products the second raised; the two results of the
\* first are kept and the two of the third follow them
C22_Witness ==
    /\ cycleOut.returned
    /\ Len(Fetched) = 3
    /\ Fetched[1].ItemInfo /\ ~Fetched[2].ItemInfo /\ Fetched[3].ItemInfo
    /\ Len(cycleOut.results) = 4
    /\ cycleOut.results[2].product = Title(Fetched[1])
    /\ cycleOut.results[3].product = Title(Fetched[3])

\* the product whose turn the a-th entry of the trace belongs to
Turn(a) ==
    1 + Cardinality({c \in 1..(a - 1) : cycleOut.trace[c].what \in {"delay", "caught"}})

\* C23: within a cycle the publishes of a product are followed by the delay
\* before anything is done for the next product, so between two publish calls
\* for different products of the cycle there is a delay.
C23_DelayBetweenProducts ==
    cycleOut.returned =>
        LET t == cycleOut.trace
            PublishAt == {a \in 1..Len(t) : t[a].what = "publish"}
        IN  /\ \A a \in PublishAt :
                  \E c \in (a + 1)..Len(t) :
                      /\ t[c] = Trace("delay", "", t[a].product)
                      /\ \A d \in (a + 1)..(c - 1) : d \in PublishAt
            /\ \A a \in PublishAt, b \in PublishAt :
                  (a < b /\ Turn(a) # Turn(b))
                      => \E c \in (a + 1)..(b - 1) : t[c].what = "delay"

\* C23 witness: two products were published to one platform each, the delay
\* of the first between the two publish calls
C23_Witness ==
    /\ cycleOut.returned
    /\ cycleOut.trace = << Trace("publish", "twitter", "B01"), Trace("delay", "", "B01"),
                           Trace("publish", "twitter", "B02"), Trace("delay", "", "B02") >>

\* the step is an operation performed for the user: a start, a stop, a tick
\* (the timer that fires and the end of the tick), a manual cycle (its start
\* and its end) or a withdrawal
OperationFor(userId) ==
    \/ \E r \in UserBots : r[1] = userId /\ startBot(userId, r[2], <<"earbuds">>)
    \/ \E r \in UserBots : r[1] = userId /\ stopBot(userId, r[2])
    \/ \E t \in 1..Len(timers) : timers[t].userId = userId /\ TimerFire(t)
    \/ \E tick \in BagToSet(ticks) : tick.userId = userId /\ TickFinishes(tick)
    \/ \E r \in UserBots, k \in ManualKeywords :
          r[1] = userId /\ ManualStart(userId, r[2], k)
    \/ \E manual \in BagToSet(manuals) : manual.userId = userId /\ ManualFinishes(manual)
    \/ \E d \in UserWithdrawals : d.userId = userId /\ Withdraw(d)

\* C24: an operation performed for one user leaves the record of every other
\* user as it was: the active flags, the four totals and the withdrawal history.
C24_OtherUsersUnchanged ==
    [][ \A userId \in UserIds :
           OperationFor(userId) =>
               \A other \in DOMAIN users \ {userId} :
                   /\ other \in DOMAIN users'
                   /\ users'[other] = users[other] ]_vars

\* C24 witness: one user has just withdrawn while the other has earnings, a
\* balance and an active bot
C24_Witness ==
    /\ lastOp = Op("withdraw", TRUE, "")
    /\ DOMAIN users = UserIds
    /\ users["default_user"].withdrawalHistory # <<>>
    /\ users["default"].availableBalance > 0
    /\ users["default"].activeBots["twitter"]

\* C25: in every state, for every (user, platform), the user's active flag for
\* the platform is true if and only if a timer is tracked under the pair's
\* key in the timer registry.
C25_ActiveIffTimerTracked ==
    \A userId \in UserIds, platform \in Platforms :
        IsActive(userId, platform) <=> Key(userId, platform) \in DOMAIN botIntervals

\* a live timer that the registry does not hold: a later start for its key
\* took its place there
Displaced(t) ==
    /\ timers[t].live
    /\ \A key \in DOMAIN botIntervals : botIntervals[key] # t

\* the timers made for the key
MadeFor(key) == {t \in 1..Len(timers) : Key(timers[t].userId, timers[t].platform) = key}

\* C26: a timer displaced from the registry stays displaced and live whatever
\* start or stop follows; when it fires while the flag of its pair is set, a
\* tick starts as for any other timer; and for every key the live timers are
\* the timers the starts made less those the stops found tracked.
C26_DisplacedTimerIsNeverCancelled ==
    /\ [][ \A t \in 1..Len(timers) :
              Displaced(t) =>
                  /\ Displaced(t)'
                  /\ (TimerFire(t) /\ IsActive(timers[t].userId, timers[t].platform))
                        => /\ lastOp' = Op("tick_started", TRUE, "")
                           /\ \E tick \in BagToSet(ticks') :
                                 /\ tick.userId = timers[t].userId
                                 /\ tick.platform = timers[t].platform ]_vars
    /\ [](\A userId \in UserIds, platform \in Platforms :
             LET made == MadeFor(Key(userId, platform))
             IN  Cardinality({t \in made : timers[t].live})
                    >= Cardinality(made) - Cardinality(made \cap untracked))

\* C26 witness: a stop has found and cancelled the tracked timer of a key, and
\* a displaced timer of that key has fired since and started a tick
C26_Witness ==
    /\ lastOp = Op("tick_started", TRUE, "")
    /\ \E t \in 1..Len(timers), s \in untracked :
          /\ Displaced(t)
          /\ Key(timers[s].userId, timers[s].platform)
                = Key(timers[t].userId, timers[t].platform)
          /\ \E tick \in BagToSet(ticks) :
                tick.userId = timers[t].userId /\ tick.platform = timers[t].platform

\* C27: a start for a user id without a user record fails with an error and
\* changes nothing: no record is made for the user, no configuration stored,
\* no timer made or tracked, nothing emitted; so a manual cycle for the key
\* that finds no configuration, as before the start, is rejected as not started.
C27_StartWithoutUserChangesNothing ==
    [][ /\ \A r \in UserBots :
              (startBot(r[1], r[2], <<"earbuds">>) /\ r[1] \notin DOMAIN users)
                  => /\ lastOp' = Op("start", FALSE, "TypeError")
                     /\ emitted' = <<>>
                     /\ UNCHANGED <<users, userConfigs, botIntervals, timers>>
        /\ \A r \in UserBots, k \in ManualKeywords :
              (ManualStart(r[1], r[2], k) /\ Key(r[1], r[2]) \notin DOMAIN userConfigs)
                  => lastOp' = Op("manual", FALSE, NotStarted) ]_vars

\* C27 witness: a start has just failed for one user while the other user has
\* a record, a configuration and a tracked timer
C27_Witness ==
    /\ lastOp = Op("start", FALSE, "TypeError")
    /\ DOMAIN users = {"default"}
    /\ Key("default", "twitter") \in DOMAIN botIntervals
    /\ Key("default_user", "twitter") \notin DOMAIN userConfigs

\* the totals of the users that earnings are credited to
Totals ==
    [userId \in DOMAIN users |->
        <<users[userId].totalEarnings, users[userId].availableBalance,
          users[userId].totalRevenue, users[userId].totalProfit>>]

C29_ManualCycleChangesNoRecord ==
    [][ /\ \A r \in UserBots, k \in ManualKeywords :
              ManualStart(r[1], r[2], k)
                  => UNCHANGED <<users, userConfigs, botIntervals, timers>>
        /\ \A manual \in BagToSet(manuals) :
              ManualFinishes(manual)
                  => /\ UNCHANGED <<users, userConfigs, botIntervals, timers>>
                     /\ EarningUpdates(emitted') = {} ]_vars

\* C29 witness: a manual cycle has just succeeded for a user whose bot is
\* active, and the user has still earned nothing
C29_Witness ==
    /\ lastOp = Op("manual", TRUE, "")
    /\ IsActive("default_user", "twitter")
    /\ Key("default_user", "twitter") \in DOMAIN botIntervals
    /\ users["default_user"].totalEarnings = 0
    /\ polled["default_user"] = <<>>

\* C30: every user's availableBalance is at least 0 and at most the user's
\* totalEarnings, since a withdrawal is completed only for a positive amount
\* that the balance covers.
C30_BalanceWithinEarnings ==
    \A userId \in DOMAIN users :
        /\ users[userId].availableBalance >= 0
        /\ users[userId].availableBalance <= users[userId].totalEarnings

\* C31: in every state the user's totalRevenue equals totalEarnings and
\* totalProfit equals 0.8 times totalEarnings, and no step makes totalEarnings
\* smaller.
C31_RevenueAndProfitFollowEarnings ==
    /\ [](LET user == callOut.value.user
          IN  /\ user.totalRevenue = user.totalEarnings
              /\ user.totalProfit = TimesEightTenths(user.totalEarnings))
    /\ [][callOut'.value.user.totalEarnings >= callOut.value.user.totalEarnings]_vars

\* the withdrawal_status events among the events
StatusEvents(events) == SelectSeq(events, LAMBDA e : e.type = "withdrawal_status")

\* the step ends the request with its one status event, sent to the room of
\* the requesting user: completed when the payment succeeded, with the record
\* in the index and, for a user with a record, the amount taken from the
\* balance and the record at the front of the history; failed otherwise
EndsWithOneStatus(withdrawalId, withdrawalData, answer) ==
    LET userId == withdrawalData.userId
        paid == ~PaymentFails(withdrawalData, answer)
    IN  /\ StatusEvents(emitted')
              = <<Event("withdrawal_status", userId, IF paid THEN "completed" ELSE "failed")>>
        /\ paid =>
              /\ withdrawalId \in DOMAIN withdrawals'
              /\ withdrawals'[withdrawalId].userId = userId
              /\ withdrawals'[withdrawalId].amount = withdrawalData.amount
              /\ userId \in DOMAIN users =>
                    /\ users'[userId].availableBalance
                          = users[userId].availableBalance - withdrawalData.amount
                    /\ Head(users'[userId].withdrawalHistory) = withdrawals'[withdrawalId]

\* C32: every withdrawal request emits exactly one withdrawal_status event to
\* the requesting user: none while it waits for the processor, one when the
\* handler ends, which it does once the processor has answered; the status is
\* completed if and only if the payment succeeded, and then the balance is
\* already decremented and the withdrawal recorded; it is failed otherwise.
C32_OneStatusEventPerRequest ==
    /\ [][ /\ \A d \in WithdrawalRequests :
                 Withdraw(d) =>
                     IF Suspends(d, paypalClient)
                     THEN /\ StatusEvents(emitted') = <<>>
                          /\ \E request \in BagToSet(pending') : request.data = d
                     ELSE /\ EndsWithOneStatus(WithdrawalId(now), d, Answer(TRUE, ""))
                          /\ pending' = pending
           /\ \A request \in BagToSet(pending), answer \in PaymentAnswers :
                 WithdrawSettles(request, answer) =>
                     /\ EndsWithOneStatus(request.withdrawalId, request.data, answer)
                     /\ pending' = pending (-) SetToBag({request}) ]_vars
    /\ \A d \in WithdrawalRequests :
          (\E request \in BagToSet(pending) : request.data = d)
              ~> (/\ lastOp.op = "withdraw"
                  /\ Len(StatusEvents(emitted)) = 1
                  /\ emitted[1].room = d.userId)

\* C32 witness: Stripe has just reported the payment of a request as succeeded
\* and the user's record holds the withdrawal
C32_Witness ==
    /\ lastOp = Op("withdraw", TRUE, "")
    /\ emitted = <<Event("withdrawal_status", "default", "completed")>>
    /\ "default" \in DOMAIN users
    /\ users["default"].withdrawalHistory # <<>>
    /\ Head(users["default"].withdrawalHistory).method = "stripe"
    /\ users["default"].availableBalance < 0

\* the terminal bot_activity events among the events: cycle completed, cycle
\* failed
Terminal(events) ==
    SelectSeq(events, LAMBDA e : e.type = "bot_activity"
                                 /\ e.message \in {"completed", "failed"})

\* C33: every awaited call and delay returning, a tick that passes the checks
\* of the active flag and the configuration emits its 'fetching' line, then
\* ends; the step that ends it emits exactly one terminal bot_activity event
\* (completed or failed) to the user, as the last of its events, so after any
\* earning_update of the tick.
C33_TickEndsWithOneTerminalEvent ==
    /\ [][ /\ \A t \in 1..Len(timers) :
                 (TimerFire(t) /\ TickProceeds(timers[t].userId, timers[t].platform))
                     => /\ emitted' = <<Event("bot_activity", timers[t].userId, "fetching")>>
                        /\ \E tick \in BagToSet(ticks') : tick.userId = timers[t].userId
           /\ \A tick \in BagToSet(ticks) :
                 TickFinishes(tick)
                     => /\ ticks' = ticks (-) SetToBag({tick})
                        /\ Len(Terminal(emitted')) = 1
                        /\ Terminal(emitted') = <<emitted'[Len(emitted')]>>
                        /\ emitted'[Len(emitted')].room = tick.userId ]_vars
    /\ \A tick \in TickInvocations :
          BagIn(tick, ticks)
              ~> (/\ lastOp.op = "tick_finished"
                  /\ Len(Terminal(emitted)) = 1
                  /\ emitted[Len(emitted)].room = tick.userId)

\* C33 witness: a tick of a user that an earlier tick credited has just ended
\* as failed
C33_Witness ==
    /\ lastOp = Op("tick_finished", FALSE, "TypeError")
    /\ emitted = <<Event("bot_activity", "default", "failed")>>
    /\ users["default"].totalEarnings > 0

====
